---- MODULE Spec2Model ----
(***************************************************************************)
(* Model of the SE050 host driver (sosthene-nitrokey/se050).               *)
(*                                                                         *)
(*   SpecApdu : the APDU codec of src/src/types.rs (SimpleTlv, CApdu and    *)
(*              CApduByteIterator).                                        *)
(*   SpecT1   : the T=1 block layer behind the T1Proto trait (block         *)
(*              encoder, CRC check of received blocks).                    *)
(*   SpecT1Live : the same block layer with a card that answers every      *)
(*              block read, under weak fairness of the reads.              *)
(*   SpecDrv  : the Se050 driver object of src/src/se050.rs on top of an    *)
(*              arbitrary T1Proto transport.                               *)
(*   SpecPcb  : the PCB byte codec of src/src/types.rs (TryFrom<u8> and     *)
(*              Into<u8> for T1PCB).                                       *)
(***************************************************************************)
EXTENDS Integers, Sequences, FiniteSets, TLC

VARIABLES
    \* ---- APDU codec (types.rs) ----
    capdu,      \* the CApdu under construction, or NoCApdu
    tlv,        \* result of the last SimpleTlv::new call
    apanic,     \* "none", or the unwrap() that aborted the program
    iter,       \* the CApduByteIterator after the last collect, or NoIter
    v,          \* the bytes collected from byte_iter()
    \* ---- Se050 driver (se050.rs) ----
    atr_info,   \* Se050.atr_info : Option<AnswerToReset>
    app_info,   \* Se050.app_info : Option<Se050AppInfo>
    t1_calls,   \* the calls made on t1_proto, in order
    last_op,    \* the last driver operation, its inputs and its result
    nops,       \* number of driver operations performed
    \* ---- T=1 block layer ----
    t1,         \* transport state: sequence bits, IFSC
    twi_out,    \* the blocks the host wrote to the bus, in order
    twi_in,     \* the blocks the host read from the bus, in order
    rxbuf,      \* the caller's receive buffer (bytes appended so far)
    t1_pc,      \* position of the transport
    t1_res,     \* result of the last transport operation
    t1_nops,    \* number of transport operations started
    \* ---- PCB codec (types.rs) ----
    pcb_op,     \* "none", "try_from", "into" or "into_try_from"
    pcb_byte,   \* the PCB byte decoded or produced, or -1
    pcb_val,    \* the T1PCB value decoded or encoded
    pcb_back    \* the result of decoding the byte produced from pcb_val

apduVars == <<capdu, tlv, apanic, iter, v>>
drvVars  == <<atr_info, app_info, t1_calls, last_op, nops>>
t1Vars   == <<t1, twi_out, twi_in, rxbuf, t1_pc, t1_res, t1_nops>>
pcbVars  == <<pcb_op, pcb_byte, pcb_val, pcb_back>>
vars     == <<capdu, tlv, apanic, iter, v,
              atr_info, app_info, t1_calls, last_op, nops,
              t1, twi_out, twi_in, rxbuf, t1_pc, t1_res, t1_nops,
              pcb_op, pcb_byte, pcb_val, pcb_back>>

----------------------------------------------------------------------------
(* Integer helpers: Rust `as u8`, `>> 8`, and fixed-capacity vectors.      *)

\* x as u8
AsU8(x) == x % 256

\* x >> n
Shr(x, n) == x \div (2 ^ n)

\* a | b on bytes
RECURSIVE BitOr(_, _)
BitOr(a, b) ==
    IF a = 0 THEN b
    ELSE IF b = 0 THEN a
    ELSE (IF a % 2 = 1 \/ b % 2 = 1 THEN 1 ELSE 0) + 2 * BitOr(a \div 2, b \div 2)

\* byteorder::BE::read_uint / read_u16 over a byte slice
RECURSIVE ReadBE(_)
ReadBE(bytes) ==
    IF bytes = <<>> THEN 0
    ELSE bytes[Len(bytes)] + 256 * ReadBE(SubSeq(bytes, 1, Len(bytes) - 1))

\* byteorder::BE::write_u16
WriteBE16(x) == <<AsU8(Shr(x, 8)), AsU8(x)>>

\* heapless::Vec::<_, cap>::from_slice(s): Err when s does not fit
FromSlice(cap, s) ==
    IF Len(s) <= cap THEN [ok |-> TRUE, vec |-> s]
                     ELSE [ok |-> FALSE, vec |-> <<>>]

\* Option<usize>
None == [some |-> FALSE, val |-> 0]
Some(x) == [some |-> TRUE, val |-> x]

----------------------------------------------------------------------------
(* SimpleTlv (types.rs 66-94)                                              *)

\* capacity of SimpleTlv.header : heapless::Vec<u8, 3>
TLV_HEADER_CAP == 3

\* room for a ninth TLV
MAX_TLVS_Nine == 8 + 1

MAX_TLVS == 8

\* SimpleTlv::new(tag, data); ok = FALSE when from_slice(..).unwrap() panics
SimpleTlvNew(tag, data) ==
    LET n == Len(data)
        bytes == IF n < 128 THEN <<tag, AsU8(n)>>
                 ELSE <<tag, 130, AsU8(Shr(n, 8)), AsU8(n)>>
        h == FromSlice(TLV_HEADER_CAP, bytes)
    IN [ok |-> h.ok, tag |-> tag, header |-> h.vec, data |-> data]

\* SimpleTlv::total_len
total_len(t) == Len(t.header) + Len(t.data)

\* sum of total_len over a list of TLVs
RECURSIVE SumTotalLen(_)
SumTotalLen(ts) ==
    IF ts = <<>> THEN 0 ELSE total_len(Head(ts)) + SumTotalLen(Tail(ts))

\* header bytes then data bytes of each TLV, in list order
RECURSIVE TlvBytes(_)
TlvBytes(ts) ==
    IF ts = <<>> THEN <<>>
    ELSE Head(ts).header \o Head(ts).data \o TlvBytes(Tail(ts))

----------------------------------------------------------------------------
(* CApdu (types.rs 121-129, 195-216)                                       *)

NoCApdu == [cla |-> -1, ins |-> -1, p1 |-> -1, p2 |-> -1,
            tlvs |-> <<>>, payload_len |-> 0, le |-> None]

NoTlv == [ok |-> TRUE, tag |-> -1, header |-> <<>>, data |-> <<>>]

\* CApdu::new
CApduNew(cla, ins, p1, p2, le) ==
    [cla |-> cla, ins |-> ins, p1 |-> p1, p2 |-> p2,
     tlvs |-> <<>>, payload_len |-> 0, le |-> le]

\* payload_len counts the data only
CApduPush_NoHeader(c, t) ==
    [c EXCEPT !.payload_len = @ + Len(t.data),
              !.tlvs = Append(@, t)]

\* CApdu::push, when tlvs.push(tlv) succeeds
CApduPush(c, t) ==
    [c EXCEPT !.payload_len = @ + total_len(t),
              !.tlvs = Append(@, t)]

----------------------------------------------------------------------------
(* CApduByteIterator (types.rs 131-193)                                    *)

NoIter == [extended |-> FALSE, capdu_header |-> <<>>, capdu_trailer |-> <<>>,
           section |-> -1, off |-> 0, oob |-> FALSE]

\* the extended form is chosen for Le > 256 only
IsExtended_Le256(c) ==
    c.payload_len > 255 \/ (c.le.some /\ c.le.val > 256)

\* is_extended of CApduByteIterator::new
IsExtended(c) ==
    c.payload_len > 255 \/ (c.le.some /\ c.le.val > 255)

\* CApduByteIterator::new
ByteIterNew(c) ==
    LET ext == IsExtended(c)
        h4 == <<c.cla, c.ins, c.p1, c.p2>>
        header == IF c.payload_len > 0
                  THEN IF ext
                       THEN h4 \o <<0, AsU8(Shr(c.payload_len, 8)), AsU8(c.payload_len)>>
                       ELSE h4 \o <<AsU8(c.payload_len)>>
                  ELSE h4
        trailer == IF c.le.some
                   THEN IF ext
                        THEN <<0, AsU8(Shr(c.le.val, 8)), AsU8(c.le.val)>>
                        ELSE <<AsU8(c.le.val)>>
                   ELSE <<>>
    IN [extended |-> ext, capdu_header |-> header, capdu_trailer |-> trailer,
        section |-> 0, off |-> 0, oob |-> FALSE]

NoSlice == [some |-> FALSE, s |-> <<>>]

\* every data section repeats the TLV header
CurrentSlice_HeaderTwice(c, it) ==
    LET i == it.section
        n == Len(c.tlvs)
    IN IF i = 0 THEN [some |-> TRUE, s |-> it.capdu_header]
       ELSE IF i <= 2 * n /\ i % 2 = 1
            THEN [some |-> TRUE, s |-> c.tlvs[Shr(i, 1) + 1].header]
       ELSE IF i <= 2 * n
            THEN [some |-> TRUE, s |-> c.tlvs[Shr(i - 1, 1) + 1].header]
       ELSE IF i = 2 * MAX_TLVS + 1
            THEN [some |-> TRUE, s |-> it.capdu_trailer]
       ELSE NoSlice

\* CApduByteIterator::current_slice (sequences are 1-based here)
CurrentSlice(c, it) ==
    LET i == it.section
        n == Len(c.tlvs)
    IN IF i = 0 THEN [some |-> TRUE, s |-> it.capdu_header]
       ELSE IF i <= 2 * n /\ i % 2 = 1
            THEN [some |-> TRUE, s |-> c.tlvs[Shr(i, 1) + 1].header]
       ELSE IF i <= 2 * n
            THEN [some |-> TRUE, s |-> c.tlvs[Shr(i - 1, 1) + 1].data]
       ELSE IF i = 2 * MAX_TLVS + 1
            THEN [some |-> TRUE, s |-> it.capdu_trailer]
       ELSE NoSlice

\* the section is changed once only: sections without a byte are not skipped
Advance_OneStep(c, it) ==
    LET cur == CurrentSlice(c, it)
    IN IF cur.some /\ it.off < Len(cur.s) THEN it
       ELSE [it EXCEPT !.off = 0, !.section = @ + 1]

\* the loop of next(): skip to the next section that still has a byte
RECURSIVE Advance(_, _)
Advance(c, it) ==
    LET cur == CurrentSlice(c, it)
    IN IF cur.some /\ it.off < Len(cur.s) THEN it
       ELSE LET it2 == [it EXCEPT !.off = 0, !.section = @ + 1]
            IN IF it2.section > 2 * MAX_TLVS + 1 THEN it2
               ELSE Advance(c, it2)

\* Iterator::next: [it |-> the iterator afterwards, out |-> <<byte>> or <<>>]
\* (oob records an index outside the current slice)
IterNext(c, it) ==
    LET cur == CurrentSlice(c, it)
    IN IF ~cur.some THEN [it |-> it, out |-> <<>>]
       ELSE IF it.off >= Len(cur.s)
            THEN [it |-> [it EXCEPT !.oob = TRUE], out |-> <<>>]
       ELSE [it |-> Advance(c, [it EXCEPT !.off = @ + 1]),
             out |-> <<cur.s[it.off + 1]>>]

\* up to n successive calls of next(), stopping at the first None or at an
\* index outside the slice; the yielded bytes in order
RECURSIVE IterRun(_, _, _)
IterRun(c, it, n) ==
    IF n = 0 THEN [it |-> it, out |-> <<>>]
    ELSE IF n = 1 THEN IterNext(c, it)
    ELSE LET a == IterRun(c, it, n \div 2)
         IN IF ~CurrentSlice(c, a.it).some \/ a.it.oob THEN a
            ELSE LET b == IterRun(c, a.it, n - (n \div 2))
                 IN [it |-> b.it, out |-> a.out \o b.out]

\* whether next() now returns None
Exhausted(c, it) == ~CurrentSlice(c, it).some

\* number of next() calls made by one collect: enough for any stream of the
\* input set; Exhausted tells whether the iterator really ended within them
CollectCalls(c) == 2 * (c.payload_len + 16 * (Len(c.tlvs) + 1))

----------------------------------------------------------------------------
(* Se050 driver (se050.rs): error and result values                        *)

\* Se050Error::UnknownError: a unit variant, it holds no data
UnknownError == [kind |-> "UnknownError", payload |-> <<>>]

NoError == [kind |-> "none", payload |-> <<>>]

Ok(val) == [ok |-> TRUE, err |-> NoError, val |-> val]
Err(e) == [ok |-> FALSE, err |-> e, val |-> <<>>]

NoResult == [ok |-> FALSE, err |-> NoError, val |-> <<>>]

\* what the transport handed back to the operation (nothing, a RawRApdu or an RApdu)
NoResp == [got |-> FALSE, data |-> <<>>, tlvs |-> <<>>, sw |-> 0]

NoOp == [op |-> "none", arg |-> <<>>, result |-> NoResult, resp |-> NoResp,
         out |-> <<>>, panic |-> FALSE]

\* one call on the T1Proto trait object: its name, what was sent, the size of
\* the receive buffer, and the Result it returned ("Ok" or a T1Error)
T1Call(name, apdu, buf_len, res) ==
    [call |-> name, apdu |-> apdu, buf_len |-> buf_len, res |-> res]

NoApdu == <<>>

\* the effect of one driver operation
OpEffect(atr, app, result, calls, resp, out, panic) ==
    [atr_info |-> atr, app_info |-> app, result |-> result, calls |-> calls,
     resp |-> resp, out |-> out, panic |-> panic]

\* RApdu::get_tlv: the first TLV carrying the tag
RECURSIVE GetTlv(_, _)
GetTlv(tlvs, tag) ==
    IF tlvs = <<>> THEN [some |-> FALSE, val |-> NoTlv]
    ELSE IF Head(tlvs).tag = tag THEN [some |-> TRUE, val |-> Head(tlvs)]
    ELSE GetTlv(Tail(tlvs), tag)

\* the applet AID of the GP SELECT (se050.rs 379-382)
AppId == <<160, 0, 0, 3, 150, 84, 83, 0, 0, 0, 1, 3, 0, 0, 0, 0>>

\* the RawCApdu built by enable (se050.rs 383-390)
AppSelectApdu ==
    [cla |-> 0, ins |-> 164, p1 |-> 4, p2 |-> 0, data |-> AppId, le |-> Some(0)]

\* Se050AppInfo parsed from the 7 data bytes (se050.rs 405-409)
AppInfoOf(adata) ==
    [applet_version |-> ReadBE(SubSeq(adata, 1, 3)),
     features |-> ReadBE(SubSeq(adata, 4, 5)),
     securebox_version |-> ReadBE(SubSeq(adata, 6, 7))]

----------------------------------------------------------------------------
(* Se050 driver operations.  Each takes the driver fields and the Results   *)
(* the transport returns to its calls, in call order.                      *)

\* enable that sends the SELECT although the soft reset failed
EnableRun_IgnoreReset(atr, app, r1, r2, r3) ==
    LET c1 == T1Call("interface_soft_reset", NoApdu, 0, r1.res)
        c2 == T1Call("send_apdu_raw", AppSelectApdu, 0, r2)
        c3 == T1Call("receive_apdu_raw", NoApdu, 11, r3.res)
        atr1 == IF r1.res = "Ok" THEN Some(r1.atr) ELSE atr
        resp == [got |-> TRUE, data |-> r3.data, tlvs |-> <<>>, sw |-> r3.sw]
    IN IF r2 # "Ok"
       THEN OpEffect(atr1, app, Err(UnknownError), <<c1, c2>>, NoResp, <<>>, FALSE)
       ELSE IF r3.res # "Ok"
       THEN OpEffect(atr1, app, Err(UnknownError), <<c1, c2, c3>>, NoResp, <<>>, FALSE)
       ELSE IF r3.sw # 36864 \/ Len(r3.data) # 7
       THEN OpEffect(atr1, app, Err(UnknownError), <<c1, c2, c3>>, resp, <<>>, FALSE)
       ELSE OpEffect(atr1, Some(AppInfoOf(r3.data)), Ok(<<>>), <<c1, c2, c3>>,
                     resp, <<>>, FALSE)

\* enable that accepts any response data length
EnableRun_AnyLength(atr, app, r1, r2, r3) ==
    LET c1 == T1Call("interface_soft_reset", NoApdu, 0, r1.res)
        c2 == T1Call("send_apdu_raw", AppSelectApdu, 0, r2)
        c3 == T1Call("receive_apdu_raw", NoApdu, 11, r3.res)
        atr1 == Some(r1.atr)
        resp == [got |-> TRUE, data |-> r3.data, tlvs |-> <<>>, sw |-> r3.sw]
    IN IF r1.res # "Ok"
       THEN OpEffect(atr, app, Err(UnknownError), <<c1>>, NoResp, <<>>, FALSE)
       ELSE IF r2 # "Ok"
       THEN OpEffect(atr1, app, Err(UnknownError), <<c1, c2>>, NoResp, <<>>, FALSE)
       ELSE IF r3.res # "Ok"
       THEN OpEffect(atr1, app, Err(UnknownError), <<c1, c2, c3>>, NoResp, <<>>, FALSE)
       ELSE IF r3.sw # 36864
       THEN OpEffect(atr1, app, Err(UnknownError), <<c1, c2, c3>>, resp, <<>>, FALSE)
       ELSE OpEffect(atr1, Some(AppInfoOf(r3.data \o <<0, 0, 0, 0, 0, 0, 0>>)),
                     Ok(<<>>), <<c1, c2, c3>>, resp, <<>>, FALSE)

\* Se050::enable (se050.rs 368-413)
EnableRun(atr, app, r1, r2, r3) ==
    LET c1 == T1Call("interface_soft_reset", NoApdu, 0, r1.res)
        c2 == T1Call("send_apdu_raw", AppSelectApdu, 0, r2)
        c3 == T1Call("receive_apdu_raw", NoApdu, 11, r3.res)
        atr1 == Some(r1.atr)
        resp == [got |-> TRUE, data |-> r3.data, tlvs |-> <<>>, sw |-> r3.sw]
    IN IF r1.res # "Ok"
       THEN OpEffect(atr, app, Err(UnknownError), <<c1>>, NoResp, <<>>, FALSE)
       ELSE IF r2 # "Ok"
       THEN OpEffect(atr1, app, Err(UnknownError), <<c1, c2>>, NoResp, <<>>, FALSE)
       ELSE IF r3.res # "Ok"
       THEN OpEffect(atr1, app, Err(UnknownError), <<c1, c2, c3>>, NoResp, <<>>, FALSE)
       ELSE IF r3.sw # 36864 \/ Len(r3.data) # 7
       THEN OpEffect(atr1, app, Err(UnknownError), <<c1, c2, c3>>, resp, <<>>, FALSE)
       ELSE OpEffect(atr1, Some(AppInfoOf(r3.data)), Ok(<<>>), <<c1, c2, c3>>,
                     resp, <<>>, FALSE)

\* Se050::disable (se050.rs 415-419): the body holds comments only
DisableRun(atr, app) ==
    OpEffect(atr, app, Ok(<<>>), <<>>, NoResp, <<>>, FALSE)

\* the send / receive / status-word sequence shared by the operations that
\* return no data: `send_apdu(..)?; receive_apdu(..)?; if rapdu.sw != 0x9000`
ExchangeRun(atr, app, c, buf_len, okval, r2, r3) ==
    LET c2 == T1Call("send_apdu", c, 0, r2)
        c3 == T1Call("receive_apdu", NoApdu, buf_len, r3.res)
        resp == [got |-> TRUE, data |-> <<>>, tlvs |-> r3.tlvs, sw |-> r3.sw]
    IN IF r2 # "Ok"
       THEN OpEffect(atr, app, Err(UnknownError), <<c2>>, NoResp, <<>>, FALSE)
       ELSE IF r3.res # "Ok"
       THEN OpEffect(atr, app, Err(UnknownError), <<c2, c3>>, NoResp, <<>>, FALSE)
       ELSE IF r3.sw # 36864
       THEN OpEffect(atr, app, Err(UnknownError), <<c2, c3>>, resp, <<>>, FALSE)
       ELSE OpEffect(atr, app, Ok(okval), <<c2, c3>>, resp, <<>>, FALSE)

\* Se050::generate_p256_key (se050.rs 502-530)
GenerateP256KeyRun(atr, app, r2, r3) ==
    LET tlv1 == SimpleTlvNew(65, <<174, 81, 174, 81>>)
        tlv2 == SimpleTlvNew(66, <<3>>)
        c == CApduPush(CApduPush(
                 CApduNew(128, BitOr(1, 128), BitOr(1, 96), 0, None), tlv1), tlv2)
    IN ExchangeRun(atr, app, c, 16, <<174, 81, 174, 81>>, r2, r3)

\* Se050::write_aes_key (se050.rs 1099-1129); a key that is not 16 bytes long
\* reaches todo!()
WriteAesKeyRun(atr, app, key, r2, r3) ==
    LET tlv1 == SimpleTlvNew(65, <<174, 80, 174, 80>>)
        tlv3 == SimpleTlvNew(67, key)
        c == CApduPush(CApduPush(
                 CApduNew(128, BitOr(1, 128), 3, 0, Some(0)), tlv1), tlv3)
    IN IF Len(key) # 16
       THEN OpEffect(atr, app, NoResult, <<>>, NoResp, <<>>, TRUE)
       ELSE ExchangeRun(atr, app, c, 260, <<>>, r2, r3)

\* the operations that copy the first tag-0x41 TLV of the response into the
\* caller's buffer: send, receive, status word, get_tlv, length, copy_from_slice
\* (se050.rs 1241-1265 and 2376-2398), here with the receive issued even
\* though the send failed
FetchRun_NoSendCheck(atr, app, c, out, r2, r3) ==
    LET c2 == T1Call("send_apdu", c, 0, r2)
        c3 == T1Call("receive_apdu", NoApdu, 260, r3.res)
        resp == [got |-> TRUE, data |-> <<>>, tlvs |-> r3.tlvs, sw |-> r3.sw]
        tlv1_ret == GetTlv(r3.tlvs, 65)
    IN IF r3.res # "Ok"
       THEN OpEffect(atr, app, Err(UnknownError), <<c2, c3>>, NoResp, out, FALSE)
       ELSE IF r3.sw # 36864
       THEN OpEffect(atr, app, Err(UnknownError), <<c2, c3>>, resp, out, FALSE)
       ELSE IF ~tlv1_ret.some
       THEN OpEffect(atr, app, Err(UnknownError), <<c2, c3>>, resp, out, FALSE)
       ELSE IF Len(tlv1_ret.val.data) # Len(out)
       THEN OpEffect(atr, app, Err(UnknownError), <<c2, c3>>, resp, out, FALSE)
       ELSE OpEffect(atr, app, Ok(<<>>), <<c2, c3>>, resp, tlv1_ret.val.data, FALSE)

\* the same sequence with the copy made before the lengths are compared: as
\* many bytes as fit are written, then the length mismatch is reported
FetchRun_CopyBeforeLengthCheck(atr, app, c, out, r2, r3) ==
    LET c2 == T1Call("send_apdu", c, 0, r2)
        c3 == T1Call("receive_apdu", NoApdu, 260, r3.res)
        resp == [got |-> TRUE, data |-> <<>>, tlvs |-> r3.tlvs, sw |-> r3.sw]
        tlv1_ret == GetTlv(r3.tlvs, 65)
        d == tlv1_ret.val.data
        copied == [i \in 1..Len(out) |-> IF i <= Len(d) THEN d[i] ELSE out[i]]
    IN IF r2 # "Ok"
       THEN OpEffect(atr, app, Err(UnknownError), <<c2>>, NoResp, out, FALSE)
       ELSE IF r3.res # "Ok"
       THEN OpEffect(atr, app, Err(UnknownError), <<c2, c3>>, NoResp, out, FALSE)
       ELSE IF r3.sw # 36864
       THEN OpEffect(atr, app, Err(UnknownError), <<c2, c3>>, resp, out, FALSE)
       ELSE IF ~tlv1_ret.some
       THEN OpEffect(atr, app, Err(UnknownError), <<c2, c3>>, resp, out, FALSE)
       ELSE IF Len(d) # Len(out)
       THEN OpEffect(atr, app, Err(UnknownError), <<c2, c3>>, resp, copied, FALSE)
       ELSE OpEffect(atr, app, Ok(<<>>), <<c2, c3>>, resp, copied, FALSE)

\* the same sequence as the code has it
FetchRun(atr, app, c, out, r2, r3) ==
    LET c2 == T1Call("send_apdu", c, 0, r2)
        c3 == T1Call("receive_apdu", NoApdu, 260, r3.res)
        resp == [got |-> TRUE, data |-> <<>>, tlvs |-> r3.tlvs, sw |-> r3.sw]
        tlv1_ret == GetTlv(r3.tlvs, 65)
    IN IF r2 # "Ok"
       THEN OpEffect(atr, app, Err(UnknownError), <<c2>>, NoResp, out, FALSE)
       ELSE IF r3.res # "Ok"
       THEN OpEffect(atr, app, Err(UnknownError), <<c2, c3>>, NoResp, out, FALSE)
       ELSE IF r3.sw # 36864
       THEN OpEffect(atr, app, Err(UnknownError), <<c2, c3>>, resp, out, FALSE)
       ELSE IF ~tlv1_ret.some
       THEN OpEffect(atr, app, Err(UnknownError), <<c2, c3>>, resp, out, FALSE)
       ELSE IF Len(tlv1_ret.val.data) # Len(out)
       THEN OpEffect(atr, app, Err(UnknownError), <<c2, c3>>, resp, out, FALSE)
       ELSE OpEffect(atr, app, Ok(<<>>), <<c2, c3>>, resp, tlv1_ret.val.data, FALSE)

\* Se050::encrypt_aes_oneshot (se050.rs 1218-1266); SimpleTlv::new(Tag3, data)
\* aborts the program when its unwrap() fails
EncryptAesOneshotRun(atr, app, data, enc, r2, r3) ==
    LET tlv1 == SimpleTlvNew(65, <<174, 80, 174, 80>>)
        tlv2 == SimpleTlvNew(66, <<13>>)
        tlv3 == SimpleTlvNew(67, data)
        c == CApduPush(CApduPush(CApduPush(
                 CApduNew(128, 3, 14, 55, Some(0)), tlv1), tlv2), tlv3)
    IN IF Len(data) > 240 \/ Len(data) % 16 # 0
       THEN OpEffect(atr, app, Err(UnknownError), <<>>, NoResp, enc, FALSE)
       ELSE IF Len(enc) # Len(data)
       THEN OpEffect(atr, app, Err(UnknownError), <<>>, NoResp, enc, FALSE)
       ELSE IF ~tlv3.ok
       THEN OpEffect(atr, app, NoResult, <<>>, NoResp, enc, TRUE)
       ELSE FetchRun(atr, app, c, enc, r2, r3)

\* Se050::get_random (se050.rs 2364-2399)
GetRandomRun(atr, app, buf, r2, r3) ==
    LET buflen == WriteBE16(Len(buf) % 65536)
        tlv1 == SimpleTlvNew(65, buflen)
        c == CApduPush(CApduNew(128, 4, 0, 73, Some(0)), tlv1)
    IN FetchRun(atr, app, c, buf, r2, r3)

----------------------------------------------------------------------------
(* Inputs of the driver model: what the caller passes and what the         *)
(* transport returns                                                       *)

\* number of driver operations in one run of the model
MaxOps == 2

Zeros(n) == [i \in 1..n |-> 0]
Ramp(n, k) == [i \in 1..n |-> (i + k) % 256]

NoAtr == [protocol_version |-> 0, bwt_ms |-> 0, ifsc |-> 0]

\* AnswerToReset values a soft reset may return (protocol version and the
\* data link layer parameters)
AtrInputs == { [protocol_version |-> 0, bwt_ms |-> 1000, ifsc |-> 254],
               [protocol_version |-> 0, bwt_ms |-> 500, ifsc |-> 128] }

ResetOutcomes ==
    { [res |-> "ProtocolError", atr |-> NoAtr] }
    \cup { [res |-> "Ok", atr |-> a] : a \in AtrInputs }

SendOutcomes == { "Ok", "TransmitError" }

\* RawRApdu values: data borrowed from a buffer of buf_len bytes, and sw
RawRApduInputs ==
    { [data |-> <<3, 1, 0, 111, 255, 1, 11>>, sw |-> 36864],
      [data |-> <<3, 1, 0, 111, 255, 1, 11>>, sw |-> 27266],
      [data |-> <<0, 0, 7, 0, 2, 3, 0>>, sw |-> 36864],
      [data |-> <<3, 1, 0, 111, 255, 1>>, sw |-> 36864],
      [data |-> <<3, 1, 0, 111, 255, 1, 11, 5>>, sw |-> 36864],
      [data |-> <<>>, sw |-> 27010] }

RecvRawOutcomes(buf_len) ==
    { [res |-> "ReceiveError", data |-> <<>>, sw |-> 0] }
    \cup { [res |-> "Ok", data |-> r.data, sw |-> r.sw] :
             r \in { x \in RawRApduInputs : Len(x.data) + 2 <= buf_len } }

\* RApdu values: the parsed TLVs and sw
RApduInputs ==
    { [tlvs |-> <<SimpleTlvNew(65, Ramp(16, 0))>>, sw |-> 36864],
      [tlvs |-> <<SimpleTlvNew(65, Ramp(16, 0))>>, sw |-> 27264],
      [tlvs |-> <<SimpleTlvNew(65, Ramp(16, 0))>>, sw |-> 27013],
      [tlvs |-> <<SimpleTlvNew(66, <<1>>), SimpleTlvNew(65, Ramp(4, 8)),
                  SimpleTlvNew(65, Ramp(16, 32))>>, sw |-> 36864],
      [tlvs |-> <<SimpleTlvNew(66, Ramp(16, 0))>>, sw |-> 36864],
      [tlvs |-> <<>>, sw |-> 36864],
      [tlvs |-> <<>>, sw |-> 27264] }

RecvOutcomes(buf_len) ==
    { [res |-> "ReceiveError", tlvs |-> <<>>, sw |-> 0] }
    \cup { [res |-> "Ok", tlvs |-> r.tlvs, sw |-> r.sw] :
             r \in { x \in RApduInputs : SumTotalLen(x.tlvs) + 2 <= buf_len } }

KeyInputs == { Ramp(16, 64), Ramp(8, 64) }

\* (data, enc) pairs handed to encrypt_aes_oneshot
CipherInputs == { <<Ramp(16, 100), Zeros(16)>>,
                  <<Ramp(15, 100), Zeros(16)>>,
                  <<Ramp(16, 100), Zeros(4)>>,
                  <<Ramp(128, 100), Zeros(128)>>,
                  <<Ramp(256, 100), Zeros(256)>> }

\* buffers handed to get_random
RandomBufInputs == { Zeros(16), Zeros(4) }

----------------------------------------------------------------------------
(* Inputs of the codec model                                               *)

\* the payload of test_capdu2 (tests/mod.rs 11)
TestData == <<0, 1, 2, 3, 0, 1, 2, 3, 0, 1, 2, 3>>

Data127 == [i \in 1..127 |-> i % 256]
Data128 == [i \in 1..128 |-> (i + 7) % 256]

\* (tag, data) pairs handed to SimpleTlv::new
TlvInputs == { <<65, TestData>>, <<66, <<>> >>, <<67, Data127>>, <<68, Data128>> }

\* the model stops pushing once payload_len would pass this
MaxPayload == 270

\* (cla, ins, p1, p2, le) handed to CApdu::new; the first is test_capdu2
NewInputs == { <<128, 32, 64, 96, Some(0)>>,
               <<0, 164, 4, 0, None>>,
               <<128, 4, 0, 73, Some(255)>>,
               <<132, 3, 14, 55, Some(256)>>,
               <<128, 2, 0, 0, Some(65536)>> }

----------------------------------------------------------------------------
(* T=1 blocks: PCB byte (types.rs 220-278), CRC-16/X-25 (types.rs 343)     *)

RECURSIVE BitAnd(_, _)
BitAnd(a, b) ==
    IF a = 0 \/ b = 0 THEN 0
    ELSE (IF a % 2 = 1 /\ b % 2 = 1 THEN 1 ELSE 0)
         + 2 * BitAnd(a \div 2, b \div 2)

RECURSIVE BitXor(_, _)
BitXor(a, b) ==
    IF a = 0 THEN b
    ELSE IF b = 0 THEN a
    ELSE (IF a % 2 = b % 2 THEN 0 ELSE 1) + 2 * BitXor(a \div 2, b \div 2)

\* !x for a u8
NotU8(x) == 255 - x

T1_S_REQUEST_CODE == 192
T1_S_RESPONSE_CODE == 224
T1_R_CODE_MASK == 236
T1_R_CODE == 128

\* enum T1SCode
T1SCode_Resync == 0
T1SCode_IFS == 1
T1SCode_Abort == 2
T1SCode_WTX == 3
T1SCode_EndApduSession == 5
T1SCode_ChipReset == 6
T1SCode_GetATR == 7
T1SCode_InterfaceSoftReset == 15

T1SCodes ==
    {T1SCode_Resync, T1SCode_IFS, T1SCode_Abort, T1SCode_WTX,
     T1SCode_EndApduSession, T1SCode_ChipReset, T1SCode_GetATR,
     T1SCode_InterfaceSoftReset}

\* enum T1PCB { I(seq, multi), S(code, response?), R(seq, err) }
PcbI(seq, multi) ==
    [kind |-> "I", seq |-> seq, multi |-> multi,
     code |-> 0, response |-> FALSE, err |-> 0]
PcbS(code, response) ==
    [kind |-> "S", seq |-> 0, multi |-> FALSE,
     code |-> code, response |-> response, err |-> 0]
PcbR(seq, err) ==
    [kind |-> "R", seq |-> seq, multi |-> FALSE,
     code |-> 0, response |-> FALSE, err |-> err]
\* Err(Iso7816Error::ValueError)
PcbValueError ==
    [kind |-> "ValueError", seq |-> 0, multi |-> FALSE,
     code |-> 0, response |-> FALSE, err |-> 0]

\* the response flag of an S-block read inverted
PcbFromU8_InvertedResponse(val) ==
    IF BitAnd(val, T1_R_CODE_MASK) = T1_R_CODE
    THEN PcbR(Shr(BitAnd(val, 16), 4), BitAnd(val, 3))
    ELSE IF BitAnd(val, T1_S_REQUEST_CODE) = T1_S_REQUEST_CODE
    THEN LET s_code == BitAnd(val, NotU8(T1_S_RESPONSE_CODE))
         IN IF s_code \in T1SCodes
            THEN PcbS(s_code, BitAnd(val, 32) = 0)
            ELSE PcbValueError
    ELSE IF BitAnd(val, 159) = 0
    THEN PcbI(Shr(BitAnd(val, 64), 6), BitAnd(val, 32) # 0)
    ELSE PcbValueError

\* impl TryFrom<u8> for T1PCB
PcbFromU8(val) ==
    IF BitAnd(val, T1_R_CODE_MASK) = T1_R_CODE
    THEN PcbR(Shr(BitAnd(val, 16), 4), BitAnd(val, 3))
    ELSE IF BitAnd(val, T1_S_REQUEST_CODE) = T1_S_REQUEST_CODE
    THEN LET s_code == BitAnd(val, NotU8(T1_S_RESPONSE_CODE))
         IN IF s_code \in T1SCodes
            THEN PcbS(s_code, BitAnd(val, 32) # 0)
            ELSE PcbValueError
    ELSE IF BitAnd(val, 159) = 0
    THEN PcbI(Shr(BitAnd(val, 64), 6), BitAnd(val, 32) # 0)
    ELSE PcbValueError

PcbToU8_SResponse(p) ==
    IF p.kind = "I"
    THEN BitOr(AsU8(p.seq * 64), IF p.multi THEN 32 ELSE 0)
    ELSE IF p.kind = "R"
    THEN BitOr(BitOr(T1_R_CODE, AsU8(p.seq * 32)), p.err)
    ELSE BitOr(T1_S_RESPONSE_CODE, p.code)

\* impl Into<u8> for T1PCB
PcbToU8(p) ==
    IF p.kind = "I"
    THEN BitOr(AsU8(p.seq * 64), IF p.multi THEN 32 ELSE 0)
    ELSE IF p.kind = "R"
    THEN BitOr(BitOr(T1_R_CODE, AsU8(p.seq * 32)), p.err)
    ELSE IF p.response
    THEN BitOr(T1_S_RESPONSE_CODE, p.code)
    ELSE BitOr(T1_S_REQUEST_CODE, p.code)

\* crc16::State<X_25>: reflected polynomial 0x8408, init 0xFFFF, xor-out
\* 0xFFFF, table driven, one byte at a time

\* x ^ (1 << k)
FlipBit(x, k) ==
    IF (x \div (2 ^ k)) % 2 = 1 THEN x - 2 ^ k ELSE x + 2 ^ k

\* n shifts of the reflected register: x ^ 0x8408 flips bits 15, 10, 3
RECURSIVE CrcBits(_, _)
CrcBits(c, n) ==
    IF n = 0 THEN c
    ELSE CrcBits(IF c % 2 = 1
                 THEN FlipBit(FlipBit(FlipBit(c \div 2, 15), 10), 3)
                 ELSE c \div 2,
                 n - 1)

\* the 256-entry lookup table of the algorithm
CrcTable == [i \in 0..255 |-> CrcBits(i, 8)]

\* a ^ b for two bytes
XorTable == [a \in 0..255 |-> [b \in 0..255 |-> BitXor(a, b)]]

\* crc = (crc >> 8) ^ table[(crc ^ byte) & 0xff]: the low byte of the table
\* entry meets crc >> 8, its high byte stays
CrcByte(c, b) ==
    LET e == CrcTable[XorTable[c % 256][b]]
    IN 256 * (e \div 256) + XorTable[c \div 256][e % 256]

\* the bytes lo..hi of bs in order: the first half, then the rest; the
\* register after the first half is computed once and handed on as a value
RECURSIVE CrcRange(_, _, _, _)
CrcRange(c, bs, lo, hi) ==
    IF lo > hi THEN c
    ELSE IF lo = hi THEN CrcByte(c, bs[lo])
    ELSE CHOOSE r \in { CrcRange(c2, bs, (lo + hi) \div 2 + 1, hi) :
                          c2 \in {CrcRange(c, bs, lo, (lo + hi) \div 2)} } : TRUE

\* State::update(bytes) on register c
CrcUpdate(c, bytes) ==
    CHOOSE r \in { CrcRange(c0, bs, 1, Len(bs)) : c0 \in {c}, bs \in {bytes} } : TRUE

Crc16X25(bytes) == 65535 - CrcUpdate(65535, bytes)

\* NAD of blocks host -> card (T1overI2C::new(twi, 0x48, 0x5a)) and of
\* blocks card -> host
NAD_HD == 90
NAD_DH == 165

\* an IFSC as wide as the two-byte ATR field
MAX_IFSC_Wide == 256 * 256 - 1

MAX_IFSC == 255

MAX_T1_FRAME_SIZE == 3 + MAX_IFSC + 2

\* NAD PCB LEN INF CRC(low byte first)
BlockEncode(nad, pcb, inf) ==
    LET body == <<nad, pcb, Len(inf)>> \o inf
        crc == Crc16X25(body)
    IN body \o <<crc % 256, crc \div 256>>

HostBlock(p, inf) == BlockEncode(NAD_HD, PcbToU8(p), inf)

BlockInf(b) == SubSeq(b, 4, Len(b) - 2)

\* does the trailer of a received block verify?
BlockCrcOk(b) ==
    /\ Len(b) >= 5
    /\ LET crc == Crc16X25(SubSeq(b, 1, Len(b) - 2))
       IN b[Len(b) - 1] = crc % 256 /\ b[Len(b)] = crc \div 256

Last(s) == s[Len(s)]

\* the ATR no payload parses to
NoAtrParsed ==
    [ok |-> FALSE,
     protocol_version |-> 0,
     vendor_id |-> <<>>,
     dllp |-> [bwt_ms |-> 0, ifsc |-> 0],
     plp |-> [kind |-> "none", mcf |-> 0, configuration |-> 0, mpot_ms |-> 0,
              rfu |-> <<>>, segt_us |-> 0, wut_us |-> 0],
     historical_bytes |-> <<>>]

\* the ATR layout as the table of the ATR parser section words it (0-based
\* offsets: 6 DLLP length, 7 BWT, 9 IFSC, 11 PLP tag 0x0B, 12 PLP length,
\* 13 mcf, 15 configuration, 16 mpot, 17 rfu, 20 segt, 22 wut,
\* 24.. historical bytes)
AtrParseTable(inf) ==
    IF Len(inf) >= 24 /\ inf[7] = 4 /\ inf[12] = 11
    THEN [ok |-> TRUE,
          protocol_version |-> inf[1],
          vendor_id |-> SubSeq(inf, 2, 6),
          dllp |-> [bwt_ms |-> ReadBE(SubSeq(inf, 8, 9)),
                    ifsc |-> ReadBE(SubSeq(inf, 10, 11))],
          plp |-> [kind |-> "I2C",
                   mcf |-> ReadBE(SubSeq(inf, 14, 15)),
                   configuration |-> inf[16],
                   mpot_ms |-> inf[17],
                   rfu |-> SubSeq(inf, 18, 20),
                   segt_us |-> ReadBE(SubSeq(inf, 21, 22)),
                   wut_us |-> ReadBE(SubSeq(inf, 23, 24))],
          historical_bytes |->
              SubSeq(inf, 25, IF Len(inf) > 39 THEN 39 ELSE Len(inf))]
    ELSE NoAtrParsed

\* ATR layout of the soft-reset response payload that test_soft_reset
\* parses to Ok (0-based offsets: 6 DLLP length = 4, 7 BWT, 9 IFSC,
\* 11 physical layer id 0x02 = I2C, 12 PLP length = 11, 13 mcf,
\* 15 configuration, 16 mpot, 17 rfu, 20 segt, 22 wut, 24 length of the
\* historical bytes, 25.. historical bytes, the first 15 kept)
AtrParse(inf) ==
    IF /\ Len(inf) >= 25 /\ inf[7] = 4 /\ inf[12] = 2 /\ inf[13] = 11
       /\ Len(inf) >= 25 + inf[25]
    THEN [ok |-> TRUE,
          protocol_version |-> inf[1],
          vendor_id |-> SubSeq(inf, 2, 6),
          dllp |-> [bwt_ms |-> ReadBE(SubSeq(inf, 8, 9)),
                    ifsc |-> ReadBE(SubSeq(inf, 10, 11))],
          plp |-> [kind |-> "I2C",
                   mcf |-> ReadBE(SubSeq(inf, 14, 15)),
                   configuration |-> inf[16],
                   mpot_ms |-> inf[17],
                   rfu |-> SubSeq(inf, 18, 20),
                   segt_us |-> ReadBE(SubSeq(inf, 21, 22)),
                   wut_us |-> ReadBE(SubSeq(inf, 23, 24))],
          historical_bytes |->
              SubSeq(inf, 26, 25 + (IF inf[25] > 15 THEN 15 ELSE inf[25]))]
    ELSE NoAtrParsed

----------------------------------------------------------------------------
(* T=1 block layer: transport state and the handling of one block read     *)

\* an R-block or an I-block is repeated at most this often
MaxRetries == 3

Min(a, b) == IF a < b THEN a ELSE b

\* the transport before the first interface soft reset
T1New ==
    [iseq_snd |-> 0,        \* host send-sequence bit
     iseq_rcv |-> 0,        \* card send-sequence bit
     ifsc |-> 254,          \* active IFSC
     wtx |-> 1,             \* pending WTX multiplier
     retries |-> 0,         \* repeats since the last progress
     cur |-> <<>>,          \* INF of the I-block in flight
     tx |-> <<>>,           \* APDU bytes not yet sent
     buf_len |-> 0,         \* length of the caller's receive buffer
     acked |-> 0,           \* host I-blocks acknowledged since the reset
     rtx |-> 0,             \* retransmissions of the I-block in flight
     rcvd |-> 0,            \* payload bytes of the chain being received
     excess |-> 0,          \* of these, the bytes the buffer had no room for
     atr |-> NoAtrParsed]

\* what handling one block does: the new transport state, the blocks
\* written, the caller's buffer, the new position and the result
Eff(t, out, rx, pc, res) ==
    [t1 |-> t, out |-> out, rxbuf |-> rx, pc |-> pc, res |-> res]

ProtocolError(t, rx) ==
    Eff([t EXCEPT !.wtx = 1], <<>>, rx, "idle", "ProtocolError")

\* a CRC mismatch is answered with R(expected card sequence, 1) every time,
\* without counting the repeats
ChecksumReject_NoLimit(pc, t, rx) ==
    Eff([t EXCEPT !.wtx = 1], <<HostBlock(PcbR(t.iseq_rcv, 1), <<>>)>>,
        rx, pc, "pending")

\* CRC mismatch: answer R(expected card sequence, 1); the error is
\* surfaced once the repeats are used up
ChecksumReject(pc, t, rx) ==
    LET out == <<HostBlock(PcbR(t.iseq_rcv, 1), <<>>)>>
        t2 == [t EXCEPT !.retries = @ + 1, !.wtx = 1]
    IN IF t.retries < MaxRetries
       THEN Eff(t2, out, rx, pc, "pending")
       ELSE Eff(t2, out, rx, "idle", "ChecksumError")

\* S(WTX, request): echo the multiplier, keep waiting
WtxAck(pc, t, rx, inf) ==
    IF Len(inf) # 1 THEN ProtocolError(t, rx)
    ELSE Eff([t EXCEPT !.wtx = inf[1]],
             <<HostBlock(PcbS(T1SCode_WTX, TRUE), inf)>>, rx, pc, "pending")

\* the value is echoed but the active IFSC stays
IfsAck_KeepIfsc(pc, t, rx, inf) ==
    IF Len(inf) # 1 THEN ProtocolError(t, rx)
    ELSE Eff([t EXCEPT !.wtx = 1],
             <<HostBlock(PcbS(T1SCode_IFS, TRUE), inf)>>, rx, pc, "pending")

\* S(IFS, request): echo the value, adopt it, keep waiting
IfsAck(pc, t, rx, inf) ==
    IF Len(inf) # 1 THEN ProtocolError(t, rx)
    ELSE Eff([t EXCEPT !.ifsc = Min(inf[1], MAX_IFSC), !.wtx = 1],
             <<HostBlock(PcbS(T1SCode_IFS, TRUE), inf)>>, rx, pc, "pending")

\* a fragment one byte longer than the active IFSC
NextFragment_OneMore(t, bytes) ==
    LET n == Min(t.ifsc + 1, Len(bytes))
        inf == SubSeq(bytes, 1, n)
        rest == SubSeq(bytes, n + 1, Len(bytes))
    IN [t1 |-> [t EXCEPT !.cur = inf, !.tx = rest, !.rtx = 0],
        block |-> HostBlock(PcbI(t.iseq_snd, rest # <<>>), inf)]

\* the next I-block of the APDU bytes still to send
NextFragment(t, bytes) ==
    LET n == Min(t.ifsc, Len(bytes))
        inf == SubSeq(bytes, 1, n)
        rest == SubSeq(bytes, n + 1, Len(bytes))
    IN [t1 |-> [t EXCEPT !.cur = inf, !.tx = rest, !.rtx = 0],
        block |-> HostBlock(PcbI(t.iseq_snd, rest # <<>>), inf)]

\* a reset that keeps the sequence counters of the state before it
ResetState_KeepSeq(t, atr) ==
    [T1New EXCEPT !.ifsc = Min(atr.dllp.ifsc, MAX_IFSC), !.atr = atr,
                  !.iseq_snd = t.iseq_snd, !.iseq_rcv = t.iseq_rcv]

\* the transport after a successful reset from state t: sequence counters
\* 0, the IFSC declared by the ATR, which the one-byte LEN caps
ResetState(t, atr) ==
    [T1New EXCEPT !.ifsc = Min(atr.dllp.ifsc, MAX_IFSC), !.atr = atr]

\* interface_soft_reset: the block read after the request
OnResetBlock(t, rx, b) ==
    IF ~BlockCrcOk(b) THEN ChecksumReject("reset_wait", t, rx)
    ELSE LET p == PcbFromU8(b[2])
             atr == AtrParse(BlockInf(b))
         IN IF p = PcbS(T1SCode_InterfaceSoftReset, TRUE) /\ atr.ok
            THEN Eff(ResetState(t, atr), <<>>, rx, "idle", "ResetOk")
            ELSE IF p = PcbS(T1SCode_WTX, FALSE)
            THEN WtxAck("reset_wait", t, rx, BlockInf(b))
            ELSE ProtocolError(t, rx)

\* a retransmission that flips the send-sequence bit
RCodeResend_Flip(t, rx) ==
    IF t.retries < MaxRetries
    THEN Eff([t EXCEPT !.retries = @ + 1, !.rtx = @ + 1, !.wtx = 1,
                       !.iseq_snd = 1 - @],
             <<HostBlock(PcbI(1 - t.iseq_snd, t.tx # <<>>), t.cur)>>,
             rx, "send_wait", "pending")
    ELSE Eff([t EXCEPT !.wtx = 1], <<>>, rx, "idle", "RCodeReceived")

\* a budget of four retransmissions
RCodeResend_Four(t, rx) ==
    IF t.retries <= MaxRetries
    THEN Eff([t EXCEPT !.retries = @ + 1, !.rtx = @ + 1, !.wtx = 1],
             <<HostBlock(PcbI(t.iseq_snd, t.tx # <<>>), t.cur)>>,
             rx, "send_wait", "pending")
    ELSE Eff([t EXCEPT !.wtx = 1], <<>>, rx, "idle", "RCodeReceived")

\* R-block with an error code: write the I-block in flight again with the
\* same sequence bit, or give up once the repeats are used up
RCodeResend(t, rx) ==
    IF t.retries < MaxRetries
    THEN Eff([t EXCEPT !.retries = @ + 1, !.rtx = @ + 1, !.wtx = 1],
             <<HostBlock(PcbI(t.iseq_snd, t.tx # <<>>), t.cur)>>,
             rx, "send_wait", "pending")
    ELSE Eff([t EXCEPT !.wtx = 1], <<>>, rx, "idle", "RCodeReceived")

\* send_apdu: the block read after an I-block was written
OnSendBlock(t, rx, b) ==
    IF ~BlockCrcOk(b) THEN ChecksumReject("send_wait", t, rx)
    ELSE LET p == PcbFromU8(b[2])
             inf == BlockInf(b)
         IN IF p.kind = "R" /\ p.err # 0
            THEN RCodeResend(t, rx)
            ELSE IF p.kind = "R" /\ p.seq = 1 - t.iseq_snd
            THEN LET t2 == [t EXCEPT !.iseq_snd = 1 - @, !.acked = @ + 1,
                                     !.retries = 0, !.wtx = 1]
                     f == NextFragment(t2, t.tx)
                 IN IF t.tx = <<>>
                    THEN Eff([t2 EXCEPT !.cur = <<>>], <<>>, rx,
                             "idle", "SendOk")
                    ELSE Eff(f.t1, <<f.block>>, rx, "send_wait", "pending")
            ELSE IF p = PcbS(T1SCode_WTX, FALSE)
            THEN WtxAck("send_wait", t, rx, inf)
            ELSE IF p = PcbS(T1SCode_IFS, FALSE)
            THEN IfsAck("send_wait", t, rx, inf)
            ELSE ProtocolError(t, rx)

\* a copy that does not look at the room left
StoreInf_Unbounded(rx, inf, cap) ==
    [rx |-> rx \o inf, over |-> 0]

\* append the INF bytes the caller's buffer of cap bytes has room for and
\* count the others
StoreInf(rx, inf, cap) ==
    LET room == Min(cap - Len(rx), Len(inf))
    IN [rx |-> rx \o SubSeq(inf, 1, room), over |-> Len(inf) - room]

\* receive_apdu: a block read from the card
OnRecvBlock(t, rx, b) ==
    IF ~BlockCrcOk(b) THEN ChecksumReject("recv_wait", t, rx)
    ELSE LET p == PcbFromU8(b[2])
             inf == BlockInf(b)
         IN IF p.kind = "I" /\ p.seq = t.iseq_rcv
            THEN LET st == StoreInf(rx, inf, t.buf_len)
                     t2 == [t EXCEPT !.iseq_rcv = 1 - @, !.retries = 0,
                                     !.wtx = 1, !.rcvd = @ + Len(inf),
                                     !.excess = @ + st.over]
                 IN IF p.multi
                    THEN Eff(t2, <<HostBlock(PcbR(t2.iseq_rcv, 0), <<>>)>>,
                             st.rx, "recv_wait", "pending")
                    ELSE IF t2.excess > 0
                    THEN \* BufferOverrunError(t2.excess)
                         Eff(t2, <<>>, st.rx, "idle", "BufferOverrunError")
                    ELSE Eff(t2, <<>>, st.rx, "idle", "RecvOk")
            ELSE IF p = PcbS(T1SCode_WTX, FALSE)
            THEN WtxAck("recv_wait", t, rx, inf)
            ELSE IF p = PcbS(T1SCode_IFS, FALSE)
            THEN IfsAck("recv_wait", t, rx, inf)
            ELSE ProtocolError(t, rx)

----------------------------------------------------------------------------
(* Inputs of the transport model: APDUs to send, blocks the card returns   *)

\* card blocks read in one behaviour
MaxBlocks == 4

\* transport operations started in one behaviour
MaxT1Ops == 3

\* the byte stream of a CApdu, as send_apdu reads it from byte_iter()
ApduStream(c) == IterRun(c, ByteIterNew(c), CollectCalls(c)).out

\* a 265-byte APDU: two TLVs of 127 data bytes, extended Lc
LongApdu ==
    CApduPush(CApduPush(CApduNew(128, 1, 0, 0, None),
                        SimpleTlvNew(65, Data127)),
              SimpleTlvNew(66, Data127))

\* the 265-byte APDU and the 20-byte APDU of test_capdu2
SendInputs ==
    { ApduStream(LongApdu),
      ApduStream(CApduPush(CApduNew(128, 32, 64, 96, Some(0)),
                           SimpleTlvNew(65, TestData))) }

\* the 20-byte stream of test_capdu2
Stream20 ==
    ApduStream(CApduPush(CApduNew(128, 32, 64, 96, Some(0)),
                         SimpleTlvNew(65, TestData)))

BufLens == {1, 16}

\* number of transport calls in one run of the model with the card that
\* never stops answering
MaxLiveCalls == 2

\* PCB bytes as the card puts them on the wire
CardI(seq, more) == 64 * seq + (IF more THEN 32 ELSE 0)
CardR(seq, err) == 128 + 16 * seq + err
CardS(code, response) == 192 + (IF response THEN 32 ELSE 0) + code

CardBlock(pcb, inf) == BlockEncode(NAD_DH, pcb, inf)

\* the same block with a damaged trailer
Corrupt(b) == [b EXCEPT ![Len(b)] = (@ + 1) % 256]

\* the ATR of test_soft_reset
AtrTest ==
    <<0, 160, 0, 0, 3, 150, 4, 3, 232, 0, 254, 2, 11, 3, 232, 8,
      1, 0, 0, 0, 0, 100, 0, 0, 10, 74, 67, 79, 80, 52, 32, 65,
      84, 80, 79>>

\* an ATR declaring IFSC = 8
AtrIfsc8 ==
    <<0, 160, 0, 0, 3, 150, 4, 3, 232, 0, 8, 2, 11, 3, 232, 8,
      1, 0, 0, 0, 0, 100, 0, 0, 2, 74, 67>>

\* an ATR declaring IFSC = 300
AtrIfsc300 ==
    <<0, 160, 0, 0, 3, 150, 4, 3, 232, 1, 44, 2, 11, 3, 232, 8,
      1, 0, 0, 0, 0, 100, 0, 0, 2, 74, 67>>

ResetBlocks ==
    { CardBlock(CardS(T1SCode_InterfaceSoftReset, TRUE), AtrTest),
      CardBlock(CardS(T1SCode_InterfaceSoftReset, TRUE), AtrIfsc8),
      CardBlock(CardS(T1SCode_InterfaceSoftReset, TRUE), AtrIfsc300),
      Corrupt(CardBlock(CardS(T1SCode_InterfaceSoftReset, TRUE), AtrIfsc8)),
      CardBlock(CardS(T1SCode_WTX, FALSE), <<2>>) }

SendBlocks ==
    { CardBlock(CardR(0, 0), <<>>),
      CardBlock(CardR(1, 0), <<>>),
      CardBlock(CardR(0, 1), <<>>),
      Corrupt(CardBlock(CardR(1, 0), <<>>)),
      CardBlock(CardS(T1SCode_WTX, FALSE), <<2>>),
      CardBlock(CardS(T1SCode_IFS, FALSE), <<4>>) }

RecvBlocks ==
    { CardBlock(CardI(0, TRUE), <<65, 1>>),
      CardBlock(CardI(0, FALSE), <<144, 0>>),
      CardBlock(CardI(1, FALSE), <<7, 144, 0>>),
      Corrupt(CardBlock(CardI(0, FALSE), <<144, 0>>)),
      CardBlock(CardS(T1SCode_WTX, FALSE), <<2>>),
      CardBlock(CardR(0, 1), <<>>) }

----------------------------------------------------------------------------
(* Idle values of the parts a specification does not exercise              *)

\* no PCB value
NoPcb ==
    [kind |-> "none", seq |-> 0, multi |-> FALSE,
     code |-> 0, response |-> FALSE, err |-> 0]

\* I(seq, more), R(seq, err) with err in 0..2, S(code, response) for the
\* eight S-codes
WellFormedPcbs ==
    { PcbI(seq, more) : seq \in {0, 1}, more \in BOOLEAN }
    \cup { PcbR(seq, err) : seq \in {0, 1}, err \in {0, 1, 2} }
    \cup { PcbS(code, response) : code \in T1SCodes, response \in BOOLEAN }

PcbIdle ==
    /\ pcb_op = "none" /\ pcb_byte = -1
    /\ pcb_val = NoPcb /\ pcb_back = NoPcb

ApduIdle ==
    /\ capdu = NoCApdu /\ tlv = NoTlv /\ apanic = "none"
    /\ iter = NoIter /\ v = <<>>

DrvIdle ==
    /\ atr_info = None /\ app_info = None /\ t1_calls = <<>>
    /\ last_op = NoOp /\ nops = 0

T1Idle ==
    /\ t1 = T1New
    /\ twi_out = <<>> /\ twi_in = <<>> /\ rxbuf = <<>>
    /\ t1_pc = "idle" /\ t1_res = "none" /\ t1_nops = 0

----------------------------------------------------------------------------
(* SpecApdu: build a CApdu, push TLVs, collect its byte stream             *)

\* let mut c = CApdu::new(cla, ins, p1, p2, le)
ApduNew ==
    /\ capdu = NoCApdu /\ apanic = "none"
    /\ \E inp \in NewInputs :
          capdu' = CApduNew(inp[1], inp[2], inp[3], inp[4], inp[5])
    /\ UNCHANGED <<tlv, apanic, iter, v>>

\* c.push(SimpleTlv::new(tag, data)); either unwrap() may abort the program
ApduPush ==
    /\ capdu # NoCApdu /\ apanic = "none"
    /\ \E inp \in TlvInputs :
          LET t == SimpleTlvNew(inp[1], inp[2])
          IN /\ capdu.payload_len + total_len(t) <= MaxPayload
             /\ tlv' = t
             /\ IF ~t.ok
                THEN apanic' = "tlv_new" /\ capdu' = capdu
                ELSE IF FromSlice(MAX_TLVS, Append(capdu.tlvs, t)).ok
                THEN apanic' = apanic /\ capdu' = CApduPush(capdu, t)
                ELSE /\ apanic' = "push"
                     /\ capdu' = [capdu EXCEPT !.payload_len = @ + total_len(t)]
    /\ iter' = NoIter /\ v' = <<>>

\* let v = c.byte_iter().collect(): next() until it returns None
ApduCollect ==
    /\ capdu # NoCApdu /\ apanic = "none" /\ iter = NoIter
    /\ LET r == IterRun(capdu, ByteIterNew(capdu), CollectCalls(capdu))
       IN iter' = r.it /\ v' = r.out
    /\ UNCHANGED <<capdu, tlv, apanic>>

InitApdu == ApduIdle /\ DrvIdle /\ T1Idle /\ PcbIdle

NextApdu ==
    \/ ApduNew /\ UNCHANGED drvVars /\ UNCHANGED t1Vars /\ UNCHANGED pcbVars
    \/ ApduPush /\ UNCHANGED drvVars /\ UNCHANGED t1Vars /\ UNCHANGED pcbVars
    \/ ApduCollect /\ UNCHANGED drvVars /\ UNCHANGED t1Vars /\ UNCHANGED pcbVars

SpecApdu == InitApdu /\ [][NextApdu]_vars

----------------------------------------------------------------------------
(* SpecDrv: a caller performs driver operations one after the other        *)

\* the calls of operation number n, tagged with the operation
TagCalls(calls, n, op) ==
    [i \in 1..Len(calls) |->
        [opid |-> n, op |-> op, call |-> calls[i].call, apdu |-> calls[i].apdu,
         buf_len |-> calls[i].buf_len, res |-> calls[i].res]]

\* one operation of the single-threaded caller took place with effect e
DrvStep(op, arg, e) ==
    /\ atr_info' = e.atr_info
    /\ app_info' = e.app_info
    /\ t1_calls' = t1_calls \o TagCalls(e.calls, nops + 1, op)
    /\ last_op' = [op |-> op, arg |-> arg, result |-> e.result, resp |-> e.resp,
                   out |-> e.out, panic |-> e.panic]
    /\ nops' = nops + 1

DrvReady == nops < MaxOps /\ ~last_op.panic

Enable ==
    /\ DrvReady
    /\ \E r1 \in ResetOutcomes, r2 \in SendOutcomes, r3 \in RecvRawOutcomes(11) :
          DrvStep("enable", <<>>, EnableRun(atr_info, app_info, r1, r2, r3))

Disable ==
    /\ DrvReady
    /\ DrvStep("disable", <<>>, DisableRun(atr_info, app_info))

GenerateP256Key ==
    /\ DrvReady
    /\ \E r2 \in SendOutcomes, r3 \in RecvOutcomes(16) :
          DrvStep("generate_p256_key", <<>>,
                  GenerateP256KeyRun(atr_info, app_info, r2, r3))

WriteAesKey ==
    /\ DrvReady
    /\ \E key \in KeyInputs, r2 \in SendOutcomes, r3 \in RecvOutcomes(260) :
          DrvStep("write_aes_key", key,
                  WriteAesKeyRun(atr_info, app_info, key, r2, r3))

EncryptAesOneshot ==
    /\ DrvReady
    /\ \E inp \in CipherInputs, r2 \in SendOutcomes, r3 \in RecvOutcomes(260) :
          DrvStep("encrypt_aes_oneshot", inp,
                  EncryptAesOneshotRun(atr_info, app_info, inp[1], inp[2], r2, r3))

GetRandom ==
    /\ DrvReady
    /\ \E buf \in RandomBufInputs, r2 \in SendOutcomes, r3 \in RecvOutcomes(260) :
          DrvStep("get_random", buf,
                  GetRandomRun(atr_info, app_info, buf, r2, r3))

InitDrv == ApduIdle /\ DrvIdle /\ T1Idle /\ PcbIdle

NextDrv ==
    \/ Enable /\ UNCHANGED apduVars /\ UNCHANGED t1Vars /\ UNCHANGED pcbVars
    \/ Disable /\ UNCHANGED apduVars /\ UNCHANGED t1Vars /\ UNCHANGED pcbVars
    \/ GenerateP256Key /\ UNCHANGED apduVars /\ UNCHANGED t1Vars /\ UNCHANGED pcbVars
    \/ WriteAesKey /\ UNCHANGED apduVars /\ UNCHANGED t1Vars /\ UNCHANGED pcbVars
    \/ EncryptAesOneshot /\ UNCHANGED apduVars /\ UNCHANGED t1Vars /\ UNCHANGED pcbVars
    \/ GetRandom /\ UNCHANGED apduVars /\ UNCHANGED t1Vars /\ UNCHANGED pcbVars

SpecDrv == InitDrv /\ [][NextDrv]_vars

----------------------------------------------------------------------------
(* SpecT1: a caller drives the transport, the card answers block by block  *)

\* apply the handling of block b
T1Apply(b, e) ==
    /\ twi_in' = Append(twi_in, b)
    /\ t1' = e.t1
    /\ twi_out' = twi_out \o e.out
    /\ rxbuf' = e.rxbuf
    /\ t1_pc' = e.pc
    /\ t1_res' = e.res
    /\ UNCHANGED t1_nops

\* t1.interface_soft_reset(delay): write S(InterfaceSoftReset, request)
InterfaceSoftReset ==
    /\ t1_pc = "idle" /\ t1_nops < MaxT1Ops
    /\ t1_nops' = t1_nops + 1
    /\ twi_out' = Append(twi_out,
                         HostBlock(PcbS(T1SCode_InterfaceSoftReset, FALSE), <<>>))
    /\ t1' = [t1 EXCEPT !.retries = 0, !.wtx = 1, !.cur = <<>>, !.tx = <<>>]
    /\ t1_pc' = "reset_wait" /\ t1_res' = "pending"
    /\ UNCHANGED <<twi_in, rxbuf>>

\* t1.send_apdu(apdu, delay): write the first I-block
SendApdu ==
    /\ t1_pc = "idle" /\ t1_nops < MaxT1Ops
    /\ t1_nops' = t1_nops + 1
    /\ \E a \in SendInputs :
          LET f == NextFragment([t1 EXCEPT !.retries = 0, !.wtx = 1], a)
          IN /\ t1' = f.t1
             /\ twi_out' = Append(twi_out, f.block)
    /\ t1_pc' = "send_wait" /\ t1_res' = "pending"
    /\ UNCHANGED <<twi_in, rxbuf>>

\* t1.receive_apdu(buf, delay), called after a send_apdu that returned Ok
ReceiveApdu ==
    /\ t1_pc = "idle" /\ t1_res = "SendOk" /\ t1_nops < MaxT1Ops
    /\ t1_nops' = t1_nops + 1
    /\ \E n \in BufLens :
          t1' = [t1 EXCEPT !.retries = 0, !.wtx = 1, !.buf_len = n,
                           !.rcvd = 0, !.excess = 0]
    /\ rxbuf' = <<>>
    /\ t1_pc' = "recv_wait" /\ t1_res' = "pending"
    /\ UNCHANGED <<twi_in, twi_out>>

ResetResponse ==
    /\ t1_pc = "reset_wait" /\ Len(twi_in) < MaxBlocks
    /\ \E b \in ResetBlocks : T1Apply(b, OnResetBlock(t1, rxbuf, b))

SendResponse ==
    /\ t1_pc = "send_wait" /\ Len(twi_in) < MaxBlocks
    /\ \E b \in SendBlocks : T1Apply(b, OnSendBlock(t1, rxbuf, b))

RecvResponse ==
    /\ t1_pc = "recv_wait" /\ Len(twi_in) < MaxBlocks
    /\ \E b \in RecvBlocks : T1Apply(b, OnRecvBlock(t1, rxbuf, b))

InitT1 == ApduIdle /\ DrvIdle /\ T1Idle /\ PcbIdle

NextT1 ==
    \/ InterfaceSoftReset /\ UNCHANGED apduVars /\ UNCHANGED drvVars /\ UNCHANGED pcbVars
    \/ SendApdu /\ UNCHANGED apduVars /\ UNCHANGED drvVars /\ UNCHANGED pcbVars
    \/ ReceiveApdu /\ UNCHANGED apduVars /\ UNCHANGED drvVars /\ UNCHANGED pcbVars
    \/ ResetResponse /\ UNCHANGED apduVars /\ UNCHANGED drvVars /\ UNCHANGED pcbVars
    \/ SendResponse /\ UNCHANGED apduVars /\ UNCHANGED drvVars /\ UNCHANGED pcbVars
    \/ RecvResponse /\ UNCHANGED apduVars /\ UNCHANGED drvVars /\ UNCHANGED pcbVars

SpecT1 == InitT1 /\ [][NextT1]_vars

----------------------------------------------------------------------------
(* SpecT1Live: the transport of SpecT1 with a card that answers every block *)
(* read, for as long as the host reads; of the wire only the latest one or  *)
(* two blocks read and the blocks written in answer to the latest are kept  *)

\* block b is read; every read changes what is kept of the wire, also when
\* the card repeats its block
ReadLatest(b) ==
    twi_in' = IF Len(twi_in) = 1 THEN Append(twi_in, b) ELSE <<b>>

\* the handling e of the block read takes effect
T1ApplyLatest(e) ==
    /\ t1' = e.t1
    /\ twi_out' = e.out
    /\ rxbuf' = e.rxbuf
    /\ t1_pc' = e.pc
    /\ t1_res' = e.res
    /\ UNCHANGED t1_nops

\* a block read ends within the block-waiting time: the card's next block
ResetRead ==
    /\ t1_pc = "reset_wait"
    /\ \E b \in ResetBlocks :
          /\ ReadLatest(b)
          /\ \E e \in {OnResetBlock(t1, rxbuf, b)} : T1ApplyLatest(e)
    /\ UNCHANGED apduVars /\ UNCHANGED drvVars /\ UNCHANGED pcbVars

SendRead ==
    /\ t1_pc = "send_wait"
    /\ \E b \in SendBlocks :
          /\ ReadLatest(b)
          /\ \E e \in {OnSendBlock(t1, rxbuf, b)} : T1ApplyLatest(e)
    /\ UNCHANGED apduVars /\ UNCHANGED drvVars /\ UNCHANGED pcbVars

RecvRead ==
    /\ t1_pc = "recv_wait"
    /\ \E b \in RecvBlocks :
          /\ ReadLatest(b)
          /\ \E e \in {OnRecvBlock(t1, rxbuf, b)} : T1ApplyLatest(e)
    /\ UNCHANGED apduVars /\ UNCHANGED drvVars /\ UNCHANGED pcbVars

\* t1.send_apdu(apdu, delay) with the APDU of test_capdu2
SendTestApdu ==
    /\ t1_pc = "idle"
    /\ t1_nops' = t1_nops + 1
    /\ LET f == NextFragment([t1 EXCEPT !.retries = 0, !.wtx = 1], Stream20)
       IN /\ t1' = f.t1
          /\ twi_out' = Append(twi_out, f.block)
    /\ t1_pc' = "send_wait" /\ t1_res' = "pending"
    /\ UNCHANGED <<twi_in, rxbuf>>

\* the caller may make another call
MayCall == t1_nops < MaxLiveCalls

NextT1Live ==
    \/ MayCall /\ InterfaceSoftReset
       /\ UNCHANGED apduVars /\ UNCHANGED drvVars /\ UNCHANGED pcbVars
    \/ MayCall /\ SendTestApdu
       /\ UNCHANGED apduVars /\ UNCHANGED drvVars /\ UNCHANGED pcbVars
    \/ MayCall /\ ReceiveApdu
       /\ UNCHANGED apduVars /\ UNCHANGED drvVars /\ UNCHANGED pcbVars
    \/ ResetRead
    \/ SendRead
    \/ RecvRead

\* every block read the host starts comes to an end (spec 5: a read is
\* bounded by the block-waiting time); the caller is free to stop calling
SpecT1Live ==
    /\ InitT1 /\ [][NextT1Live]_vars
    /\ WF_vars(ResetRead \/ SendRead \/ RecvRead)

----------------------------------------------------------------------------
(* SpecPcb: the PCB byte codec applied to every byte and every PCB value   *)

\* T1PCB::try_from(b) for a byte b
PcbDecode ==
    /\ \E b \in 0..255 :
          /\ pcb_byte' = b
          /\ pcb_val' = PcbFromU8(b)
    /\ pcb_op' = "try_from"
    /\ pcb_back' = NoPcb

\* p.into() for a well-formed PCB value p
PcbEncode ==
    /\ \E p \in WellFormedPcbs :
          /\ pcb_val' = p
          /\ pcb_byte' = PcbToU8(p)
    /\ pcb_op' = "into"
    /\ pcb_back' = NoPcb

\* T1PCB::try_from(p.into())
PcbDecodeEncoded ==
    /\ pcb_op = "into"
    /\ pcb_back' = PcbFromU8(pcb_byte)
    /\ pcb_op' = "into_try_from"
    /\ UNCHANGED <<pcb_byte, pcb_val>>

InitPcb == ApduIdle /\ DrvIdle /\ T1Idle /\ PcbIdle

NextPcb ==
    \/ PcbDecode /\ UNCHANGED apduVars /\ UNCHANGED drvVars /\ UNCHANGED t1Vars
    \/ PcbEncode /\ UNCHANGED apduVars /\ UNCHANGED drvVars /\ UNCHANGED t1Vars
    \/ PcbDecodeEncoded /\ UNCHANGED apduVars /\ UNCHANGED drvVars
                        /\ UNCHANGED t1Vars

SpecPcb == InitPcb /\ [][NextPcb]_vars

----------------------------------------------------------------------------
(* Claims about the APDU codec (checked under SpecApdu)                    *)

\* the collect of the current CApdu has run
Collected == iter # NoIter

Header4(c) == <<c.cla, c.ins, c.p1, c.p2>>

ShortField(x) == <<AsU8(x)>>
ExtendedField(x) == <<0, AsU8(Shr(x, 8)), AsU8(x)>>

\* C1: SimpleTlv::new succeeds for every payload length, with header
\* [tag, len] for len < 128 and [tag, 0x82, len >> 8, len & 0xFF] for
\* len >= 128, and total_len() is 2 + len respectively 4 + len.
C1_TlvNewEveryLength ==
    tlv # NoTlv =>
        LET n == Len(tlv.data)
        IN /\ tlv.ok
           /\ tlv.header = IF n < 128 THEN <<tlv.tag, n>>
                           ELSE <<tlv.tag, 130, AsU8(Shr(n, 8)), AsU8(n)>>
           /\ total_len(tlv) = IF n < 128 THEN 2 + n ELSE 4 + n

\* C2: the collected stream is cla, ins, p1, p2, then the Lc field iff
\* Lc = sum of total_len > 0, then header and data of each TLV in push order,
\* then the Le field iff le is Some; and the stream of test_capdu2 is
\* 80 20 40 60 0E 41 0C <12 data bytes> 00.
C2_ByteStream ==
    Collected =>
        LET lc == SumTotalLen(capdu.tlvs)
            lcFields == IF lc > 0 THEN {ShortField(lc), ExtendedField(lc)} ELSE {<<>>}
            leFields == IF capdu.le.some
                        THEN {ShortField(capdu.le.val), ExtendedField(capdu.le.val)}
                        ELSE {<<>>}
        IN /\ ~CurrentSlice(capdu, iter).some /\ ~iter.oob
           /\ Len(capdu.tlvs) <= MAX_TLVS
           /\ \E f \in lcFields, g \in leFields :
                 v = Header4(capdu) \o f \o TlvBytes(capdu.tlvs) \o g
           /\ (/\ Header4(capdu) = <<128, 32, 64, 96>>
               /\ capdu.le = Some(0)
               /\ Len(capdu.tlvs) = 1
               /\ capdu.tlvs[1].tag = 65
               /\ capdu.tlvs[1].data = TestData)
              => v = <<128, 32, 64, 96, 14, 65, 12>> \o TestData \o <<0>>

\* C2 witness: a CApdu holding 8 TLVs and an Le has been collected
C2_Witness ==
    Collected /\ Len(capdu.tlvs) = MAX_TLVS /\ capdu.le.some

\* the stream of a CApdu whose Lc and Le fields are both short or both extended
StreamWith(c, short) ==
    LET lc == SumTotalLen(c.tlvs)
    IN Header4(c)
       \o (IF lc = 0 THEN <<>> ELSE IF short THEN ShortField(lc) ELSE ExtendedField(lc))
       \o TlvBytes(c.tlvs)
       \o (IF ~c.le.some THEN <<>>
           ELSE IF short THEN ShortField(c.le.val) ELSE ExtendedField(c.le.val))

\* C3 as stated: short encoding exactly when Lc <= 255 and Le <= 256 (absent
\* Le counts as short), extended encoding in every other case.
C3_ShortIffLe256 ==
    Collected =>
        v = StreamWith(capdu, /\ SumTotalLen(capdu.tlvs) <= 255
                              /\ (capdu.le.some => capdu.le.val <= 256))

\* C3 amended: short encoding exactly when Lc <= 255 and Le <= 255 (absent
\* Le counts as short), extended encoding in every other case.
C3_ShortIffLe255 ==
    Collected =>
        v = StreamWith(capdu, /\ SumTotalLen(capdu.tlvs) <= 255
                              /\ (capdu.le.some => capdu.le.val <= 255))

\* C3 witness: Le = 256 with a short payload has been encoded
C3_Witness ==
    /\ Collected /\ capdu.le = Some(256)
    /\ SumTotalLen(capdu.tlvs) > 0 /\ SumTotalLen(capdu.tlvs) <= 255

\* C4: byte_iter() never yields more than 4 + 3 + sum(total_len) + 3 bytes.
C4_StreamBound ==
    Collected =>
        /\ ~CurrentSlice(capdu, iter).some
        /\ Len(v) <= 4 + 3 + SumTotalLen(capdu.tlvs) + 3

\* C4 witness: a stream of exactly 4 + 3 + sum(total_len) + 3 bytes
C4_Witness ==
    /\ Collected /\ Len(capdu.tlvs) > 0
    /\ Len(v) = 4 + 3 + SumTotalLen(capdu.tlvs) + 3

\* c.push(tlv) is called in this step with a TLV that SimpleTlv::new built
PushesTlv ==
    /\ capdu # NoCApdu /\ apanic = "none"
    /\ iter' = NoIter /\ tlv'.ok
    /\ capdu' # capdu \/ apanic' # apanic

\* C22: a CApdu never holds more than 8 TLVs: each of the first 8 pushes is
\* appended behind the TLVs pushed before it, a ninth push aborts the
\* program and leaves the 8 TLVs as they are; an RApdu holds at most 8 TLVs.
C22_AtMostEightTlvs ==
    /\ [](capdu # NoCApdu => Len(capdu.tlvs) <= 8)
    /\ [][ PushesTlv =>
              IF Len(capdu.tlvs) < 8
              THEN apanic' = "none" /\ capdu'.tlvs = Append(capdu.tlvs, tlv')
              ELSE apanic' = "push" /\ capdu'.tlvs = capdu.tlvs ]_vars
    /\ [](\A r \in RApduInputs : Len(r.tlvs) <= 8)

\* C22 witness: the ninth push has aborted the program, 8 TLVs are held
C22_Witness ==
    /\ apanic = "push" /\ Len(capdu.tlvs) = 8
    /\ capdu.tlvs[1] = SimpleTlvNew(65, TestData)
    /\ \A i \in 2..8 : capdu.tlvs[i] = SimpleTlvNew(66, <<>>)
    /\ tlv = SimpleTlvNew(65, TestData)

\* C27: next() on the byte iterator of any CApdu never indexes outside the
\* current slice, returns Some exactly header length + Lc value + trailer
\* length times, and returns None on every call after that.
C27_IteratorTerminates ==
    Collected =>
        LET it0 == ByteIterNew(capdu)
            again == IterRun(capdu, iter, 3)
        IN /\ ~iter.oob
           /\ Len(v) = Len(it0.capdu_header) + SumTotalLen(capdu.tlvs)
                           + Len(it0.capdu_trailer)
           /\ Len(v) < CollectCalls(capdu)
           /\ Exhausted(capdu, iter)
           /\ again.out = <<>> /\ again.it = iter

\* C27 witness: the iterator of a CApdu with 8 TLVs, one of them with empty
\* data, and no Le has been run to its end
C27_Witness ==
    /\ Collected /\ Len(capdu.tlvs) = 8 /\ ~capdu.le.some
    /\ \E i \in 1..8 : capdu.tlvs[i].data = <<>>
    /\ \E i \in 1..8 : capdu.tlvs[i].data # <<>>
    /\ Len(v) = 4 + 1 + capdu.payload_len

----------------------------------------------------------------------------
(* Claims about the T=1 block layer (checked under SpecT1)                 *)

\* C5: every block the host writes ends with the CRC-16/X-25 of its NAD,
\* PCB, LEN and INF bytes, low byte first; crc([00 30 5F 6F F2]) = 0x78A1;
\* the S(InterfaceSoftReset, request) block with NAD 0x5A is 5A CF 00 37 7F.
C5_BlockCrc ==
    /\ twi_out # <<>> =>
          \* every block is the last one written in the state after its write
          LET b == Last(twi_out)
              crc == Crc16X25(SubSeq(b, 1, Len(b) - 2))
          IN /\ Len(b) >= 5
             /\ b[3] = Len(b) - 5
             /\ b[Len(b) - 1] = crc % 256
             /\ b[Len(b)] = crc \div 256
    /\ Crc16X25(<<0, 48, 95, 111, 242>>) = 30881
    /\ (t1_pc = "reset_wait" /\ t1.retries = 0 /\ t1.wtx = 1) =>
          Last(twi_out) = <<90, 207, 0, 55, 127>>

\* C5 witness: the host has written the soft-reset request and, later, an
\* I-block with a non-empty INF
C5_Witness ==
    \E i, j \in DOMAIN twi_out :
        /\ i < j
        /\ twi_out[i] = <<90, 207, 0, 55, 127>>
        /\ twi_out[j][3] > 0

\* C6: a received block whose CRC trailer does not verify is rejected: no
\* INF byte is appended to the caller's buffer, no sequence counter changes,
\* and the host answers with an R-block carrying error code 1 (bit 7 = 1,
\* bit 4 = expected sequence, bits 1..0 = 01, all other bits 0).
C6_BadCrcRejected ==
    [][ (Len(twi_in') = Len(twi_in) + 1 /\ ~BlockCrcOk(Last(twi_in'))) =>
            /\ rxbuf' = rxbuf
            /\ t1'.iseq_snd = t1.iseq_snd
            /\ t1'.iseq_rcv = t1.iseq_rcv
            /\ Len(twi_out') = Len(twi_out) + 1
            /\ Last(twi_out')[2] \in {129, 145}
            /\ Last(twi_out')[3] = 0 ]_vars

\* transport errors that end the exchange for good (spec 7)
FatalT1Errors ==
    {"TransmitError", "ReceiveError", "ChecksumError", "ProtocolError",
     "RCodeReceived"}

\* a block was read in this step while the transport was at position pc
ReadAt(pc) == Len(twi_in') = Len(twi_in) + 1 /\ t1_pc = pc

\* the PCB of the block read in this step, if its CRC verifies
ReadPcb ==
    IF BlockCrcOk(Last(twi_in')) THEN PcbFromU8(Last(twi_in')[2])
    ELSE PcbValueError

\* C12: from a successful interface soft reset on, the host send-sequence
\* bit equals (number of host I-blocks acknowledged) mod 2: it flips exactly
\* once per acknowledged I-block and is left unchanged by a retransmission,
\* by an R-block with a non-zero error code and by a WTX exchange.
C12_SendSeqParity ==
    /\ [](t1.atr.ok => t1.iseq_snd = t1.acked % 2)
    /\ [][ /\ t1'.acked = t1.acked + 1 => t1'.iseq_snd = 1 - t1.iseq_snd
           /\ t1'.iseq_snd # t1.iseq_snd =>
                 (t1'.acked = t1.acked + 1 \/ t1_res' = "ResetOk")
           /\ (ReadAt("send_wait") /\ ReadPcb.kind = "R" /\ ReadPcb.err = 0
                 /\ ReadPcb.seq # t1.iseq_snd) =>
                 t1'.acked = t1.acked + 1
           /\ ((ReadAt("send_wait") \/ ReadAt("recv_wait"))
                 /\ \/ ReadPcb.kind = "R" /\ ReadPcb.err # 0
                    \/ ReadPcb = PcbS(T1SCode_WTX, FALSE)) =>
                 (t1'.iseq_snd = t1.iseq_snd /\ t1'.acked = t1.acked)
           /\ (Len(twi_out') = Len(twi_out) + 1 /\ Len(twi_out) > 0
                 /\ Last(twi_out') = Last(twi_out)) =>
                 t1'.iseq_snd = t1.iseq_snd ]_vars

\* C12 witness: after a successful reset an I-block was retransmitted on
\* R(0, 1) and then acknowledged
C12_Witness ==
    /\ t1.atr.ok /\ t1.acked = 1 /\ t1.iseq_snd = 1
    /\ \E i \in DOMAIN twi_in : twi_in[i] = CardBlock(CardR(0, 1), <<>>)

\* the I-block in flight is written again in this step
Retransmits ==
    /\ t1_pc = "send_wait"
    /\ Len(twi_out') = Len(twi_out) + 1
    /\ Last(twi_out') = HostBlock(PcbI(t1.iseq_snd, t1.tx # <<>>), t1.cur)

\* C13: during send_apdu the same I-block is retransmitted at most three
\* times; after three retransmissions without an acknowledging R-block the
\* exchange ends with a fatal error and no fourth retransmission is written.
C13_ThreeRetransmissions ==
    /\ [](t1.rtx <= 3)
    /\ [][ /\ Retransmits <=> t1'.rtx = t1.rtx + 1
           /\ (Retransmits /\ t1_pc' = "send_wait") => t1.rtx < 3
           /\ (ReadAt("send_wait") /\ t1.rtx = 3
                 /\ ReadPcb.kind = "R" /\ ReadPcb.err # 0) =>
                 /\ twi_out' = twi_out
                 /\ t1_pc' = "idle"
                 /\ t1_res' \in FatalT1Errors ]_vars

\* C13 witness: the exchange ended with a fatal error after the third
\* retransmission
C13_Witness ==
    t1.rtx = 3 /\ t1_pc = "idle" /\ t1_res = "RCodeReceived"

\* the block-waiting timeout of the next block read, in ms
ReadTimeout == t1.atr.dllp.bwt_ms * t1.wtx

\* the block read in this step is S(WTX, request) carrying one byte
ReadsWtxRequest ==
    /\ \/ ReadAt("reset_wait") \/ ReadAt("send_wait") \/ ReadAt("recv_wait")
    /\ BlockCrcOk(Last(twi_in'))
    /\ Last(twi_in')[2] = 195
    /\ Last(twi_in')[3] = 1

\* C14: when the host awaits a block and reads S(WTX, request) carrying m,
\* its next write is S(WTX, response) carrying m, no sequence counter
\* changes, the pending exchange is not complete, and the block-waiting
\* timeout is multiplied by m for the next block read only: the read after
\* a block that is no WTX request is back to the ATR value.
C14_WtxHandshake ==
    [][ /\ ReadsWtxRequest =>
              LET m == Last(twi_in')[4]
              IN /\ twi_out' = Append(twi_out, BlockEncode(NAD_HD, 227, <<m>>))
                 /\ t1'.iseq_snd = t1.iseq_snd
                 /\ t1'.iseq_rcv = t1.iseq_rcv
                 /\ t1_pc' = t1_pc /\ t1_res' = "pending"
                 /\ t1'.cur = t1.cur /\ t1'.tx = t1.tx /\ rxbuf' = rxbuf
                 /\ ReadTimeout' = t1.atr.dllp.bwt_ms * m
        /\ (Len(twi_in') = Len(twi_in) + 1 /\ ~ReadsWtxRequest /\ t1'.atr = t1.atr)
              => ReadTimeout' = t1.atr.dllp.bwt_ms
      ]_vars

\* C14 witness: after a successful reset (BWT 1000 ms) a WTX request with
\* m = 2 was answered during send_apdu and the next block read used 2000 ms
\* and put the timeout back
C14_Witness ==
    /\ t1.atr.ok /\ ReadTimeout = 1000
    /\ \E i \in DOMAIN twi_in : i < Len(twi_in) /\ i > 1
          /\ twi_in[i] = CardBlock(CardS(T1SCode_WTX, FALSE), <<2>>)
    /\ \E j \in DOMAIN twi_out : twi_out[j] = BlockEncode(NAD_HD, 227, <<2>>)

\* send_apdu writes a new I-block in this step: the first one of the
\* APDU, or the next one after an acknowledgement
WritesFragment ==
    /\ t1_pc' = "send_wait"
    /\ t1_pc = "idle" \/ t1'.acked = t1.acked + 1

\* C15: send_apdu cuts the byte stream of the APDU into I-blocks whose INF
\* is at most the active IFSC, with the more bit on every block but the
\* last, the INF fields concatenating to the stream and the sequence bit
\* alternating; with IFSC = 8 the 20-byte stream goes out as 8, 8, 4 bytes
\* with more bits 1, 1, 0 and sequence bits 0, 1, 0.
C15_Chaining ==
    /\ [][ /\ WritesFragment =>
                LET b == Last(twi_out')
                    pcb == b[2]
                    inf == BlockInf(b)
                IN /\ twi_out' = Append(twi_out, b)
                   /\ b[1] = NAD_HD /\ BlockCrcOk(b)
                   /\ pcb \in {0, 32, 64, 96}
                   /\ Len(inf) >= 1 /\ Len(inf) <= t1'.ifsc
                   /\ inf = t1'.cur
                   /\ IF t1_pc = "idle"
                      THEN t1'.cur \o t1'.tx \in SendInputs
                      ELSE /\ t1'.cur \o t1'.tx = t1.tx
                           /\ (pcb \div 64) % 2 = 1 - t1.iseq_snd
                   /\ (pcb \div 32) % 2 = 1 <=> t1'.tx # <<>>
                   /\ (pcb \div 64) % 2 = t1'.iseq_snd
           /\ t1_res' = "SendOk" /\ t1_res # "SendOk" => t1.tx = <<>> ]_vars
    /\ []( ( /\ t1_res = "SendOk" /\ t1_nops = 2
             /\ twi_in = << CardBlock(CardS(T1SCode_InterfaceSoftReset, TRUE),
                                      AtrIfsc8),
                            CardBlock(CardR(1, 0), <<>>),
                            CardBlock(CardR(0, 0), <<>>),
                            CardBlock(CardR(1, 0), <<>>) >> )
           => /\ t1.ifsc = 8 /\ Len(Stream20) = 20
              /\ twi_out = << BlockEncode(NAD_HD, 207, <<>>),
                              BlockEncode(NAD_HD, 32, SubSeq(Stream20, 1, 8)),
                              BlockEncode(NAD_HD, 96, SubSeq(Stream20, 9, 16)),
                              BlockEncode(NAD_HD, 0, SubSeq(Stream20, 17, 20)) >> )

\* C15 witness: with IFSC = 8 the 20-byte APDU has been sent in three
\* I-blocks, each acknowledged
C15_Witness ==
    /\ t1_res = "SendOk" /\ t1.ifsc = 8 /\ t1.acked = 3
    /\ Len(twi_out) = 4
    /\ BlockInf(twi_out[2]) \o BlockInf(twi_out[3]) \o BlockInf(twi_out[4])
           = Stream20

\* interface_soft_reset returns Ok in this step
ResetReturnsOk == t1_pc = "reset_wait" /\ t1_res' = "ResetOk"

\* the IFSC an ATR payload declares: two bytes, big-endian, at offset 9
DeclaredIfsc(inf) == 256 * inf[10] + inf[11]

C17_IfscCapped ==
    /\ t1.ifsc <= 255
    /\ \A i \in DOMAIN twi_out :
          /\ Len(twi_out[i]) <= 260
          /\ twi_out[i][3] = Len(twi_out[i]) - 5
          /\ twi_out[i][3] \in 0..255
    /\ \A i \in DOMAIN twi_in : Len(twi_in[i]) <= 260

\* C17 witness: the ATR declared IFSC 300, the active IFSC is 255 and the
\* first I-block of the 265-byte APDU is a full frame of 260 bytes
C17_Witness ==
    /\ t1.atr.ok /\ t1.atr.dllp.ifsc = 300 /\ t1.ifsc = 255
    /\ t1_pc = "send_wait" /\ Len(t1.cur) = 255 /\ Len(t1.tx) = 10
    /\ Len(Last(twi_out)) = MAX_T1_FRAME_SIZE

\* receive_apdu accepts an I-block in this step
AcceptsIBlock ==
    /\ ReadAt("recv_wait")
    /\ ReadPcb.kind = "I" /\ ReadPcb.seq = t1.iseq_rcv

\* C18: receive_apdu never writes beyond the caller's buffer: when the
\* payload of the chain of I-blocks exceeds the buffer length by n > 0
\* bytes it returns BufferOverrunError(n), and what it has written is the
\* first buffer-length bytes of the payload.
C18_NoWriteBeyondBuffer ==
    /\ [](t1_pc = "recv_wait" \/ t1_res \in {"RecvOk", "BufferOverrunError"}
            => /\ Len(rxbuf) <= t1.buf_len
               /\ Len(rxbuf) = Min(t1.rcvd, t1.buf_len)
               /\ t1.excess = t1.rcvd - Len(rxbuf))
    /\ [](t1_res = "BufferOverrunError"
            => t1.excess > 0 /\ t1.excess = t1.rcvd - t1.buf_len)
    /\ [](t1_res = "RecvOk" => t1.rcvd <= t1.buf_len)
    /\ [][ AcceptsIBlock =>
              LET inf == BlockInf(Last(twi_in'))
                  all == rxbuf \o inf
              IN /\ t1'.rcvd = t1.rcvd + Len(inf)
                 /\ rxbuf' = SubSeq(all, 1, Min(Len(all), t1.buf_len))
                 /\ t1'.buf_len = t1.buf_len
                 /\ IF Last(twi_in')[2] \in {32, 96}
                    THEN t1_pc' = "recv_wait"
                    ELSE /\ t1_pc' = "idle"
                         /\ t1_res' = IF t1'.rcvd > t1.buf_len
                                      THEN "BufferOverrunError" ELSE "RecvOk"
         ]_vars

\* C18 witness: a chain of 2 + 3 payload bytes was received into a buffer of
\* one byte: BufferOverrunError(4), one byte written
C18_Witness ==
    /\ t1_res = "BufferOverrunError" /\ t1.buf_len = 1
    /\ t1.rcvd = 5 /\ t1.excess = 4 /\ rxbuf = <<65>>

\* the response block of test_soft_reset: A5 EF 23, the ATR, CRC 87 77
TestAtrBlock == <<165, 239, 35>> \o AtrTest \o <<135, 119>>

\* interface_soft_reset has just returned after reading the test block
TestAtrAnswered ==
    twi_in # <<>> /\ Last(twi_in) = TestAtrBlock /\ t1_pc = "idle"

C20_RBlockEncoding ==
    /\ \A i \in DOMAIN twi_out :
          LET pcb == twi_out[i][2]
          IN pcb \div 64 = 2 => pcb \in {128, 129, 130, 144, 145, 146}
    /\ twi_out # <<>> =>
          \A seq \in {0, 1}, err \in {0, 1, 2} :
              PcbToU8(PcbR(seq, err)) = 128 + 16 * seq + err

\* the block read in this step of send_apdu is S(IFS, request) carrying
\* one byte
ReadsIfsRequest ==
    /\ ReadAt("send_wait")
    /\ BlockCrcOk(Last(twi_in'))
    /\ Last(twi_in')[2] = 193
    /\ Last(twi_in')[3] = 1

\* C24: while send_apdu awaits the acknowledgement of an I-block, an
\* S(IFS, request) carrying v is answered with S(IFS, response) carrying v,
\* the active IFSC becomes v, no sequence counter changes and the host
\* awaits the acknowledgement again; it is no protocol error.
C24_IfsDuringSend ==
    [][ ReadsIfsRequest =>
            LET val == Last(twi_in')[4]
            IN /\ twi_out' = Append(twi_out, BlockEncode(NAD_HD, 225, <<val>>))
               /\ t1'.ifsc = val
               /\ t1'.iseq_snd = t1.iseq_snd
               /\ t1'.iseq_rcv = t1.iseq_rcv
               /\ t1'.acked = t1.acked
               /\ t1'.cur = t1.cur /\ t1'.tx = t1.tx
               /\ t1_pc' = "send_wait" /\ t1_res' = "pending" ]_vars

\* C24 witness: the card proposed IFSC 4 during a send, then acknowledged
\* the I-block in flight, and the next I-block carries 4 bytes
C24_Witness ==
    /\ t1_pc = "send_wait" /\ t1.ifsc = 4 /\ Len(t1.cur) = 4
    /\ Len(twi_out) >= 2
    /\ twi_out[Len(twi_out) - 1] = BlockEncode(NAD_HD, 225, <<4>>)
    /\ Last(twi_in) \in { CardBlock(CardR(0, 0), <<>>), CardBlock(CardR(1, 0), <<>>) }

\* a call on the transport has not returned yet
CallPending == t1_pc # "idle"

\* the block just read is S(WTX, request) or S(IFS, request): the host has
\* answered it with the S response and the call goes on waiting for a block
ExtensionGranted ==
    /\ CallPending /\ twi_in # <<>> /\ twi_out # <<>>
    /\ BlockCrcOk(Last(twi_in))
    /\ \E code \in {T1SCode_WTX, T1SCode_IFS} :
          /\ PcbFromU8(Last(twi_in)[2]) = PcbS(code, FALSE)
          /\ Last(twi_out) = HostBlock(PcbS(code, TRUE), BlockInf(Last(twi_in)))

----------------------------------------------------------------------------
(* Claims about the driver operations (checked under SpecDrv)              *)

\* the transport calls of operation number n, in call order
OpCalls(n) ==
    LET OfOp(c) == c.opid = n
    IN SelectSeq(t1_calls, OfOp)

IsSend(c) == c.call \in {"send_apdu", "send_apdu_raw"}
IsRecv(c) == c.call \in {"receive_apdu", "receive_apdu_raw"}

\* C7: enable() calls interface_soft_reset, then sends the SELECT FILE APDU
\* (00 A4 04 00, the 16-byte AID, Le = 0) once, then receives once; the
\* SELECT is not sent after a failed reset, the receive not after a failed send.
C7_EnableOrder ==
    last_op.op = "enable" =>
        LET cs == OpCalls(nops)
        IN /\ Len(cs) \in 1..3
           /\ cs[1].call = "interface_soft_reset"
           /\ (Len(cs) >= 2) <=> (cs[1].res = "Ok")
           /\ Len(cs) >= 2 =>
                /\ IsSend(cs[2])
                /\ cs[2].apdu = [cla |-> 0, ins |-> 164, p1 |-> 4, p2 |-> 0,
                                 data |-> <<160, 0, 0, 3, 150, 84, 83, 0,
                                            0, 0, 1, 3, 0, 0, 0, 0>>,
                                 le |-> Some(0)]
                /\ (Len(cs) = 3) <=> (cs[2].res = "Ok")
           /\ Len(cs) = 3 => IsRecv(cs[3])

\* C7 witness: an enable() that went through reset, send and receive
C7_Witness ==
    last_op.op = "enable" /\ Len(OpCalls(nops)) = 3

\* C8: enable() returns Ok iff reset, send and receive succeed and the
\* response has sw 0x9000 and exactly 7 data bytes; then the applet info is
\* data[0..3], data[3..5], data[5..7], each big-endian.
C8_EnableResult ==
    last_op.op = "enable" =>
        LET cs == OpCalls(nops)
            d == last_op.resp.data
        IN /\ last_op.result.ok <=>
                /\ Len(cs) = 3
                /\ \A i \in 1..3 : cs[i].res = "Ok"
                /\ last_op.resp.got
                /\ last_op.resp.sw = 36864
                /\ Len(d) = 7
           /\ last_op.result.ok =>
                /\ app_info.some
                /\ app_info.val.applet_version = 65536 * d[1] + 256 * d[2] + d[3]
                /\ app_info.val.features = 256 * d[4] + d[5]
                /\ app_info.val.securebox_version = 256 * d[6] + d[7]

\* C8 witness: an enable() that returned Ok
C8_Witness ==
    last_op.op = "enable" /\ last_op.result.ok

\* C9: when the exchange completes with a status word other than 0x9000 the
\* operation returns an error value that carries that status word.
C9_ErrorCarriesSw ==
    (last_op.resp.got /\ last_op.resp.sw # 36864) =>
        /\ ~last_op.result.ok
        /\ \E i \in DOMAIN last_op.result.err.payload :
              last_op.result.err.payload[i] = last_op.resp.sw

\* C10: a receive is issued only directly after a successful send of the same
\* operation, an operation sends at most once and receives at most once, and
\* after a successful send the next transport call is that receive.
C10_ResponseFollowsRequest ==
    /\ \A i \in DOMAIN t1_calls :
          IsRecv(t1_calls[i]) =>
              /\ i > 1
              /\ IsSend(t1_calls[i - 1])
              /\ t1_calls[i - 1].res = "Ok"
              /\ t1_calls[i - 1].opid = t1_calls[i].opid
    /\ \A i \in DOMAIN t1_calls :
          (IsSend(t1_calls[i]) /\ t1_calls[i].res = "Ok") =>
              /\ i < Len(t1_calls)
              /\ IsRecv(t1_calls[i + 1])
              /\ t1_calls[i + 1].opid = t1_calls[i].opid
    /\ \A n \in 1..nops :
          /\ Cardinality({i \in DOMAIN t1_calls :
                            t1_calls[i].opid = n /\ IsSend(t1_calls[i])}) <= 1
          /\ Cardinality({i \in DOMAIN t1_calls :
                            t1_calls[i].opid = n /\ IsRecv(t1_calls[i])}) <= 1

\* C10 witness: two operations in a row that each sent and received
C10_Witness ==
    Cardinality({i \in DOMAIN t1_calls : IsRecv(t1_calls[i])}) = 2

\* C11: after an operation failed with a fatal transport error no further
\* command APDU is sent until an interface soft reset has returned Ok.
C11_NoSendAfterFatal ==
    \A i, j \in DOMAIN t1_calls :
        (i < j /\ t1_calls[i].res \in FatalT1Errors /\ IsSend(t1_calls[j])) =>
            \E k \in (i + 1)..(j - 1) :
                /\ t1_calls[k].call = "interface_soft_reset"
                /\ t1_calls[k].res = "Ok"

\* C23: disable() ends the session and destroys what enable() created: it
\* makes a call on the transport (to send S(EndApduSession)) and, after it
\* returns, the driver holds neither the ATR nor the applet info.
C23_DisableDestroys ==
    (last_op.op = "disable" /\ \E i \in DOMAIN t1_calls : t1_calls[i].op = "enable")
        => /\ OpCalls(nops) # <<>>
           /\ atr_info = None
           /\ app_info = None

\* the transport calls made by the operation of this step
EnableCalls == SubSeq(t1_calls', Len(t1_calls) + 1, Len(t1_calls'))

\* enable() is called in this step and returns an error
EnableFails ==
    /\ nops' = nops + 1 /\ last_op'.op = "enable" /\ ~last_op'.result.ok

\* C29: a failing enable() leaves the stored state as it was: after a failed
\* soft reset no APDU is sent, and after any failure (reset, SELECT send,
\* receive, response check) the stored ATR and applet info are those from
\* before the call; applet info is stored only together with an ATR.
C29_EnableAtomic ==
    /\ [][ EnableFails =>
              /\ atr_info' = atr_info /\ app_info' = app_info
              /\ (EnableCalls[1].res # "Ok" =>
                     \A i \in DOMAIN EnableCalls : ~IsSend(EnableCalls[i])) ]_vars
    /\ [](app_info # None => atr_info # None)

\* the buffer the caller handed to the operation that just took place
CallerBuffer ==
    IF last_op.op = "encrypt_aes_oneshot" THEN last_op.arg[2] ELSE last_op.arg

\* C28: encrypt_aes_oneshot and get_random write the caller's buffer only
\* when they return Ok: on every error path it is as the caller passed it,
\* on Ok it is the payload of the first tag-0x41 TLV of the response.
C28_BufferWrittenOnOk ==
    (last_op.op \in {"encrypt_aes_oneshot", "get_random"}) =>
        IF last_op.result.ok
        THEN /\ last_op.resp.got /\ last_op.resp.sw = 36864
             /\ \E i \in DOMAIN last_op.resp.tlvs :
                   /\ last_op.resp.tlvs[i].tag = 65
                   /\ \A j \in 1..(i - 1) : last_op.resp.tlvs[j].tag # 65
                   /\ last_op.out = last_op.resp.tlvs[i].data
             /\ Len(last_op.out) = Len(CallerBuffer)
        ELSE last_op.out = CallerBuffer

\* C28 witness: get_random returned Ok and the buffer holds the payload of
\* the first tag-0x41 TLV, which is the second TLV of the response
C28_Witness ==
    /\ last_op.op = "get_random" /\ last_op.result.ok
    /\ Len(last_op.resp.tlvs) = 3 /\ last_op.resp.tlvs[1].tag = 66
    /\ last_op.arg = Zeros(4) /\ last_op.out = Ramp(4, 8)

----------------------------------------------------------------------------
(* Claims about the PCB byte codec (checked under SpecPcb)                 *)

\* C21: every R-block obtained by decoding a PCB byte has an error code in
\* {0, 1, 2}; a byte whose low two bits are 3 is not decoded as an R-block.
C21_DecodedErrCode ==
    (pcb_op = "try_from" /\ pcb_val.kind = "R") =>
        /\ pcb_val.err \in {0, 1, 2}
        /\ pcb_byte % 4 # 3

\* bit k of the byte b
BitOf(b, k) == (b \div (2 ^ k)) % 2

\* the three shapes of a PCB byte
ShapeI(b) == BitOf(b, 7) = 0 /\ b % 32 = 0
ShapeR(b) ==
    /\ BitOf(b, 7) = 1 /\ BitOf(b, 6) = 0 /\ BitOf(b, 5) = 0
    /\ BitOf(b, 3) = 0 /\ BitOf(b, 2) = 0
ShapeS(b) ==
    /\ BitOf(b, 7) = 1 /\ BitOf(b, 6) = 1
    /\ b % 32 \in {0, 1, 2, 3, 5, 6, 7, 15}

\* C25: the decoder classifies every byte into at most one variant:
\* I(seq = bit 6, more = bit 5) exactly when bit 7 and bits 4..0 are 0;
\* R(seq = bit 4, err = bits 1..0) exactly when bit 7 = 1 and bits 6, 5, 3,
\* 2 are 0; S(code = bits 4..0, response = bit 5) exactly when bits 7 and 6
\* are 1 and bits 4..0 are one of the eight S-codes; every other byte is
\* rejected with a value error.
C25_DecoderClassifies ==
    pcb_op = "try_from" =>
        LET b == pcb_byte
        IN /\ ~(ShapeI(b) /\ ShapeR(b)) /\ ~(ShapeI(b) /\ ShapeS(b))
           /\ ~(ShapeR(b) /\ ShapeS(b))
           /\ pcb_val.kind = "I" <=> ShapeI(b)
           /\ pcb_val.kind = "R" <=> ShapeR(b)
           /\ pcb_val.kind = "S" <=> ShapeS(b)
           /\ pcb_val.kind = "ValueError"
                  <=> ~(ShapeI(b) \/ ShapeR(b) \/ ShapeS(b))
           /\ ShapeI(b) => pcb_val = PcbI(BitOf(b, 6), BitOf(b, 5) = 1)
           /\ ShapeR(b) => pcb_val = PcbR(BitOf(b, 4), b % 4)
           /\ ShapeS(b) => pcb_val = PcbS(b % 32, BitOf(b, 5) = 1)

\* C25 witness: 0xEF was decoded as S(InterfaceSoftReset, response)
C25_Witness ==
    /\ pcb_op = "try_from" /\ pcb_byte = 239
    /\ pcb_val = PcbS(T1SCode_InterfaceSoftReset, TRUE)

\* C26: encoding and decoding are inverse: for every well-formed PCB value
\* p, decoding the byte produced by encoding p succeeds and returns p.
C26_RoundTrip ==
    pcb_op = "into_try_from" =>
        /\ pcb_val \in WellFormedPcbs
        /\ pcb_back = pcb_val

====
